---------------------------- MODULE Spec2Model ----------------------------
(***************************************************************************)
(* A model of the AI_Doc_Engine validation engine (src/validators.py), of  *)
(* its text utilities (src/utils.py) and of the /ingest request handler     *)
(* that uses them (src/main.py).                                            *)
(*                                                                         *)
(* Python values are tagged records, since a field of a raw field map may   *)
(* be None, an int or a str:                                                *)
(*     [t |-> "none"]   [t |-> "int", v |-> n]   [t |-> "str", s |-> chars] *)
(* A str is the sequence of its characters, each a one-character string.    *)
(* A dict is a function whose DOMAIN is the set of keys that are present.   *)
(***************************************************************************)
EXTENDS Integers, Sequences, FiniteSets, TLC

VARIABLES
    raw,            \* the raw field map handed to clean_financial_data
    industry,       \* the industry tag handed to validate_financial_data
    current_year,   \* datetime.now().year at the time of validation
    pc,             \* position in the clean -> validate -> summary pipeline
    cleaned,        \* what clean_financial_data returned (NoMap before)
    recleaned,      \* what clean_financial_data returned for the cleaned map
    outcome,        \* what validate_financial_data returned or raised
    summary,        \* what get_validation_summary returned (NoSummary before)
    rpc,            \* /ingest: each request's position in ingest_document
    rdata,          \* /ingest: structured_data, the map the LLM returned
    rarg,           \* /ingest: the argument validate_financial_data received
    rrec,           \* /ingest: financial_data, the validated record
    rstatus,        \* /ingest: the HTTP status of the response (0 before)
    store,          \* the financial_statements table, a sequence of rows
    batch,          \* the list handed to FinancialDataBatch(records=...)
    bpc,            \* position in the construction of the batch
    boutcome,       \* what FinancialDataBatch(records=...) returned or raised
    text,           \* the text handed to clean_text and chunk_text_for_llm
    max_chunk_size, \* the max_chunk_size handed to chunk_text_for_llm
    tpc,            \* position in the text processing
    once,           \* clean_text(text)
    twice,          \* clean_text(clean_text(text))
    chunks,         \* chunk_text_for_llm(text, max_chunk_size)
    tables,         \* detect_table_structure(text)
    company_info,   \* extract_company_info(text)
    keywords        \* extract_financial_keywords(text)

vars == <<raw, industry, current_year, pc, cleaned, recleaned, outcome, summary,
          rpc, rdata, rarg, rrec, rstatus, store,
          batch, bpc, boutcome,
          text, max_chunk_size, tpc, once, twice, chunks,
          tables, company_info, keywords>>

pipeVars == <<raw, industry, current_year, pc, cleaned, recleaned, outcome,
             summary>>
ingestVars == <<rpc, rdata, rarg, rrec, rstatus, store>>
batchVars == <<batch, bpc, boutcome>>
scanVars == <<tables, company_info, keywords>>
textVars == <<text, max_chunk_size, tpc, once, twice, chunks,
              tables, company_info, keywords>>

---------------------------------------------------------------------------
(* Python values *)

None == [t |-> "none"]
IntV(n) == [t |-> "int", v |-> n]
StrV(chars) == [t |-> "str", s |-> chars]

IsNone(x) == x.t = "none"
IsInt(x) == x.t = "int"
IsStr(x) == x.t = "str"

\* dict.get(key): the value of a key, None when the key is not present
Get(d, k) == IF k \in DOMAIN d THEN d[k] ELSE None

Abs(n) == IF n < 0 THEN -n ELSE n

Range(f) == {f[i] : i \in DOMAIN f}

---------------------------------------------------------------------------
(* Characters and strings *)

Digits == {"0", "1", "2", "3", "4", "5", "6", "7", "8", "9"}

\* the characters str.strip() and float() treat as white space
Whitespace == {" ", "\t", "\n"}

DigitVal(c) ==
    CASE c = "0" -> 0 [] c = "1" -> 1 [] c = "2" -> 2 [] c = "3" -> 3
      [] c = "4" -> 4 [] c = "5" -> 5 [] c = "6" -> 6 [] c = "7" -> 7
      [] c = "8" -> 8 [] c = "9" -> 9

UpperLetters ==
    <<"A", "B", "C", "D", "E", "F", "G", "H", "I", "J", "K", "L", "M",
      "N", "O", "P", "Q", "R", "S", "T", "U", "V", "W", "X", "Y", "Z">>
LowerLetters ==
    <<"a", "b", "c", "d", "e", "f", "g", "h", "i", "j", "k", "l", "m",
      "n", "o", "p", "q", "r", "s", "t", "u", "v", "w", "x", "y", "z">>

\* str.lower() of one character
Lower(c) ==
    IF \E i \in DOMAIN UpperLetters : UpperLetters[i] = c
    THEN LowerLetters[CHOOSE i \in DOMAIN UpperLetters : UpperLetters[i] = c]
    ELSE c

LowerStr(s) == [i \in 1..Len(s) |-> Lower(s[i])]

\* the characters of s that are not in drop, in order
RECURSIVE RemoveChars(_, _)
RemoveChars(s, drop) ==
    IF s = <<>> THEN <<>>
    ELSE IF Head(s) \in drop THEN RemoveChars(Tail(s), drop)
    ELSE <<Head(s)>> \o RemoveChars(Tail(s), drop)

\* str.strip(): s without its leading and trailing white space
Strip(s) ==
    LET keep == {i \in 1..Len(s) : s[i] \notin Whitespace}
    IN  IF keep = {} THEN <<>>
        ELSE LET lo == CHOOSE i \in keep : \A j \in keep : i <= j
                 hi == CHOOSE i \in keep : \A j \in keep : j <= i
             IN  SubSeq(s, lo, hi)

\* the value of a sequence of decimal digits (0 for the empty sequence)
RECURSIVE DecVal(_)
DecVal(ds) ==
    IF ds = <<>> THEN 0
    ELSE 10 * DecVal(SubSeq(ds, 1, Len(ds) - 1)) + DigitVal(ds[Len(ds)])

AllDigits(s) == \A i \in 1..Len(s) : s[i] \in Digits

\* ds without its leading zeros
RECURSIVE DropZeros(_)
DropZeros(ds) ==
    IF ds # <<>> /\ Head(ds) = "0" THEN DropZeros(Tail(ds)) ELSE ds

Zeros(n) == [i \in 1..n |-> "0"]

SetMin(S) == CHOOSE x \in S : \A y \in S : x <= y

---------------------------------------------------------------------------
(* float(str) and int(float), as clean_financial_data uses them *)

CharsInf == <<"i", "n", "f">>
CharsInfinity == <<"i", "n", "f", "i", "n", "i", "t", "y">>
CharsNan == <<"n", "a", "n">>
CharsNull == <<"n", "u", "l", "l">>

\* The largest power of ten a finite float can reach: a decimal string whose
\* value has more than 309 integer digits, or has 309 and starts 1798 or
\* above (the largest float is 1.7976931348623157e308), parses as inf.
FloatMaxDigits == 309
FloatMaxLead == 1798

\* The parts of the text of a float: the sign, the mantissa before the
\* first e or E, the exponent text after it, the digits around the point.
HasSign(t) == t # <<>> /\ t[1] \in {"+", "-"}
Unsign(t) == IF HasSign(t) THEN Tail(t) ELSE t
SignOf(t) == IF HasSign(t) /\ t[1] = "-" THEN -1 ELSE 1

ExpPos(low) ==
    IF \E i \in 1..Len(low) : low[i] = "e"
    THEN SetMin({i \in 1..Len(low) : low[i] = "e"})
    ELSE Len(low) + 1
Mantissa(low) == SubSeq(low, 1, ExpPos(low) - 1)
ExpText(low) == SubSeq(low, ExpPos(low) + 1, Len(low))
ExpOk(low) ==
    ExpPos(low) > Len(low)
    \/ (Unsign(ExpText(low)) # <<>> /\ AllDigits(Unsign(ExpText(low))))
ExpValue(low) ==
    IF ExpPos(low) > Len(low) THEN 0
    ELSE SignOf(ExpText(low)) * DecVal(Unsign(ExpText(low)))

DotPos(mant) ==
    IF \E i \in 1..Len(mant) : mant[i] = "."
    THEN SetMin({i \in 1..Len(mant) : mant[i] = "."})
    ELSE Len(mant) + 1
IntDigits(mant) == SubSeq(mant, 1, DotPos(mant) - 1)
FracDigits(mant) == SubSeq(mant, DotPos(mant) + 1, Len(mant))
MantOk(mant) ==
    /\ AllDigits(IntDigits(mant)) /\ AllDigits(FracDigits(mant))
    /\ Len(IntDigits(mant)) + Len(FracDigits(mant)) >= 1

FloatValue(kind, neg, digits, point) ==
    [k |-> kind, neg |-> neg, digits |-> digits, point |-> point]

\* the float of a well-formed decimal text: mantissa digits ip.fp, exponent exp
DecimalFloat(neg, ip, fp, exp) ==
    LET sig == DropZeros(ip \o fp)
        point == exp - Len(fp) + Len(sig)
    IN  IF sig = <<>> THEN FloatValue("num", neg, <<>>, 0)
        ELSE IF point > FloatMaxDigits
                \/ (point = FloatMaxDigits
                    /\ DecVal(SubSeq(sig \o Zeros(4), 1, 4)) >= FloatMaxLead)
        THEN FloatValue("inf", neg, <<>>, 0)
        ELSE FloatValue("num", neg, sig, point)

\* float(s): [k |-> "num", neg, digits, point] stands for the number
\* 0.digits x 10^point (negated when neg); k is "inf", "nan" or "ValueError"
\* otherwise. White space around the text is skipped, the sign is optional,
\* the exponent is e or E with an optional sign. (float() also accepts an
\* underscore between two digits; no input explored here holds one.)
ParseFloat(s) ==
    LET neg == SignOf(Strip(s)) = -1
        low == LowerStr(Unsign(Strip(s)))
    IN  IF low \in {CharsInf, CharsInfinity} THEN FloatValue("inf", neg, <<>>, 0)
        ELSE IF low = CharsNan THEN FloatValue("nan", neg, <<>>, 0)
        ELSE IF ~(MantOk(Mantissa(low)) /\ ExpOk(low))
        THEN FloatValue("ValueError", neg, <<>>, 0)
        ELSE DecimalFloat(neg, IntDigits(Mantissa(low)),
                          FracDigits(Mantissa(low)), ExpValue(low))

\* the integer part of the magnitude of a parsed number: truncation toward 0
TruncMagnitude(f) ==
    IF f.point <= 0 THEN 0
    ELSE IF f.point <= Len(f.digits) THEN DecVal(SubSeq(f.digits, 1, f.point))
    ELSE DecVal(f.digits \o Zeros(f.point - Len(f.digits)))

\* int(float(s)): the integer, or the exception the call raises.
\* int(nan) raises ValueError and int(inf) raises OverflowError.
IntOfFloat(s) ==
    LET f == ParseFloat(s)
    IN  CASE f.k = "num" ->
               [k |-> "ok",
                v |-> IF f.neg THEN -TruncMagnitude(f) ELSE TruncMagnitude(f)]
          [] f.k = "inf" -> [k |-> "OverflowError", v |-> 0]
          [] OTHER -> [k |-> "ValueError", v |-> 0]

---------------------------------------------------------------------------
(* clean_financial_data *)

MonetaryFields == {"revenue", "cogs", "gross_profit", "operating_expenses",
                   "operating_income", "net_income", "total_assets",
                   "total_liabilities", "equity"}

\* the characters re.sub(r'[\$,\(\)]', '', value) removes
StrippedChars == {"$", ",", "(", ")"}

\* the exceptions the try block of clean_financial_data catches
CaughtExceptions == {"ValueError", "TypeError"}

\* A value that stands for an exception leaving the function
Raise(kind) == [t |-> "raise", kind |-> kind]
IsRaise(x) == x.t = "raise"

\* accounting notation taken from the opening parenthesis alone
IsParenthesized_OpenOnly(value) == "(" \in Range(value)

\* '(' in value and ')' in value
IsParenthesized(value) == "(" \in Range(value) /\ ")" \in Range(value)

\* One iteration of the loop of clean_financial_data: the cleaned value of
\* one key, or the exception that leaves the loop.
CleanValue(key, value) ==
    IF IsNone(value) \/ value = StrV(CharsNull) \/ value = StrV(<<>>)
    THEN None
    ELSE IF IsStr(value) THEN
        IF key \in MonetaryFields THEN
            LET cleaned_value == RemoveChars(value.s, StrippedChars)
                parsed == IntOfFloat(cleaned_value)
            IN  IF parsed.k = "ok" THEN
                    IntV(IF IsParenthesized(value.s) THEN -parsed.v ELSE parsed.v)
                ELSE IF parsed.k \in CaughtExceptions THEN None
                ELSE Raise(parsed.k)
        ELSE StrV(Strip(value.s))
    ELSE value

\* clean_financial_data(raw_data): the cleaned dict, or the exception raised
\* by the first key whose conversion raises one that is not caught.
clean_financial_data(raw_data) ==
    LET failing == {k \in DOMAIN raw_data : IsRaise(CleanValue(k, raw_data[k]))}
    IN  IF failing # {}
        THEN [raised |-> TRUE,
              kind |-> (CHOOSE x \in {CleanValue(k, raw_data[k]).kind : k \in failing} : TRUE),
              data |-> <<>>]
        ELSE [raised |-> FALSE, kind |-> "",
              data |-> [k \in DOMAIN raw_data |-> CleanValue(k, raw_data[k])]]

---------------------------------------------------------------------------
(* The schema: class FinancialData and its two subclasses *)

BaseOrder == <<"company_name", "year", "revenue", "cogs", "gross_profit",
               "operating_expenses", "operating_income", "net_income",
               "total_assets", "total_liabilities", "equity",
               "gross_margin", "operating_margin", "net_margin">>

SaaSOrder == <<"recurring_revenue", "annual_recurring_revenue",
               "monthly_recurring_revenue", "customer_acquisition_cost",
               "customer_lifetime_value", "churn_rate">>

RetailOrder == <<"same_store_sales", "comparable_store_sales", "inventory",
                 "store_count", "sales_per_square_foot", "inventory_turnover">>

\* the declaration with ge=0 on gross_profit as well
GeZeroFields_WithGrossProfit ==
    {"revenue", "cogs", "gross_profit", "operating_expenses", "total_assets",
     "total_liabilities", "gross_margin",
     "recurring_revenue", "annual_recurring_revenue",
     "monthly_recurring_revenue", "customer_acquisition_cost",
     "customer_lifetime_value", "churn_rate",
     "inventory", "store_count", "sales_per_square_foot",
     "inventory_turnover"}

\* the fields declared with ge=0
GeZeroFields == {"revenue", "cogs", "operating_expenses", "total_assets",
                 "total_liabilities", "gross_margin",
                 "recurring_revenue", "annual_recurring_revenue",
                 "monthly_recurring_revenue", "customer_acquisition_cost",
                 "customer_lifetime_value", "churn_rate",
                 "inventory", "store_count", "sales_per_square_foot",
                 "inventory_turnover"}

\* the fields declared with ge=-100, and those declared with le=100
GeMinus100Fields == {"operating_margin", "net_margin"}
Le100Fields == {"gross_margin", "operating_margin", "net_margin", "churn_rate"}

\* the fields @validator validate_positive_values is attached to
PositiveValidatorFields == {"revenue", "cogs", "operating_expenses",
                            "total_assets", "total_liabilities"}

MinNameLength == 1
MaxNameLength == 255
YearDigits == 4
MinYear == 1900

\* One violation: the rule that failed and the field it is reported on
\* ("" for a rule of the whole record).
Violation(rule, field) == [rule |-> rule, field |-> field]

\* The result of validating one field: its violations and its value
FieldOk(value) == [errs |-> <<>>, value |-> value]
FieldErr(rule, field) == [errs |-> <<Violation(rule, field)>>, value |-> None]

\* s with every run of white space replaced by one space: re.sub(r'\s+', ' ', v)
RECURSIVE NormalizeSpace(_)
NormalizeSpace(s) ==
    IF s = <<>> THEN <<>>
    ELSE IF Head(s) \in Whitespace THEN
        IF Len(s) > 1 /\ s[2] \in Whitespace THEN NormalizeSpace(Tail(s))
        ELSE <<" ">> \o NormalizeSpace(Tail(s))
    ELSE <<Head(s)>> \o NormalizeSpace(Tail(s))

\* @validator('company_name'): the cleaned name, or the violation
validate_company_name(v) ==
    IF v = <<>> \/ Strip(v) = <<>> THEN FieldErr("company_name_empty", "company_name")
    ELSE FieldOk(StrV(NormalizeSpace(Strip(v))))

\* company_name: str = Field(..., min_length=1, max_length=255), then its validator
CompanyNameField(data) ==
    IF "company_name" \notin DOMAIN data THEN FieldErr("missing", "company_name")
    ELSE LET x == data["company_name"]
         IN  IF ~IsStr(x) THEN FieldErr("string_type", "company_name")
             ELSE IF Len(x.s) < MinNameLength THEN FieldErr("string_too_short", "company_name")
             ELSE IF Len(x.s) > MaxNameLength THEN FieldErr("string_too_long", "company_name")
             ELSE validate_company_name(x.s)

\* the range check with the upper bound at the current year
validate_year_NoNextYear(v, now_year) ==
    IF DecVal(v) < MinYear \/ DecVal(v) > now_year
    THEN FieldErr("year_range", "year")
    ELSE FieldOk(StrV(v))

\* @validator('year'): v, or the violation when int(v) is out of range
validate_year(v, now_year) ==
    LET year_int == DecVal(v)
    IN  IF year_int < MinYear \/ year_int > now_year + 1
        THEN FieldErr("year_range", "year")
        ELSE FieldOk(StrV(v))

\* year: str = Field(..., pattern=r'^\d{4}$'), then its validator
YearField(data, now_year) ==
    IF "year" \notin DOMAIN data THEN FieldErr("missing", "year")
    ELSE LET x == data["year"]
         IN  IF ~IsStr(x) THEN FieldErr("string_type", "year")
             ELSE IF ~(Len(x.s) = YearDigits /\ AllDigits(x.s))
                  THEN FieldErr("string_pattern_mismatch", "year")
             ELSE validate_year(x.s, now_year)

\* The int a numeric field accepts for a value: an int as it is, a str of
\* decimal digits with an optional sign (white space around it skipped) as
\* its value; any other str is a parsing error.
PydanticInt(x) ==
    IF IsInt(x) THEN [ok |-> TRUE, v |-> x.v]
    ELSE LET t == Strip(x.s)
             signed == t # <<>> /\ t[1] \in {"+", "-"}
             body == IF signed THEN Tail(t) ELSE t
         IN  IF body # <<>> /\ AllDigits(body)
             THEN [ok |-> TRUE,
                   v |-> IF signed /\ t[1] = "-" THEN -DecVal(body) ELSE DecVal(body)]
             ELSE [ok |-> FALSE, v |-> 0]

\* @validator validate_positive_values: the violation when v is negative
validate_positive_values(field, v) ==
    IF ~IsNone(v) /\ v.v < 0 THEN FieldErr("negative", field) ELSE FieldOk(v)

\* An Optional numeric field: None when absent, the declared bounds, then
\* validate_positive_values on the fields it is attached to.
NumberField(field, data) ==
    LET x == Get(data, field)
    IN  IF IsNone(x) THEN FieldOk(None)
        ELSE LET p == PydanticInt(x)
             IN  IF ~p.ok THEN FieldErr("int_parsing", field)
                 ELSE IF field \in GeZeroFields /\ p.v < 0
                      THEN FieldErr("greater_than_equal", field)
                 ELSE IF field \in GeMinus100Fields /\ p.v < -100
                      THEN FieldErr("greater_than_equal", field)
                 ELSE IF field \in Le100Fields /\ p.v > 100
                      THEN FieldErr("less_than_equal", field)
                 ELSE IF field \in PositiveValidatorFields
                      THEN validate_positive_values(field, IntV(p.v))
                 ELSE FieldOk(IntV(p.v))

\* the validation of one declared field
ValidateField(field, data, now_year) ==
    CASE field = "company_name" -> CompanyNameField(data)
      [] field = "year" -> YearField(data, now_year)
      [] OTHER -> NumberField(field, data)

\* the violations of a sequence of fields, in the order of the fields
RECURSIVE FieldErrors(_, _, _)
FieldErrors(order, data, now_year) ==
    IF order = <<>> THEN <<>>
    ELSE ValidateField(Head(order), data, now_year).errs
         \o FieldErrors(Tail(order), data, now_year)

\* extra="forbid": one violation for each key that is no declared field
\* (reported after the declared fields; a set has no order, so the keys are
\* taken smallest-first by a fixed choice)
RECURSIVE ExtraErrors(_)
ExtraErrors(keys) ==
    IF keys = {} THEN <<>>
    ELSE LET k == CHOOSE x \in keys : TRUE
         IN  <<Violation("extra_forbidden", k)>> \o ExtraErrors(keys \ {k})

---------------------------------------------------------------------------
(* The model validators *)

ToleranceFloor == 1000
TolerancePercent == 1
ArrTolerancePercent == 5

\* a tolerance of the fixed floor alone, whatever the expected value
OutsideTolerance_FloorOnly(actual, expected, basis, percent) ==
    Abs(actual - expected) > ToleranceFloor

\* abs(actual - expected) > max(1000, basis * percent / 100), in integers:
\* d > max(a, b) is d > a and d > b. The code computes basis * 0.01 in
\* floating point, which is exact at the integers these amounts reach.
OutsideTolerance(actual, expected, basis, percent) ==
    LET d == Abs(actual - expected)
    IN  d > ToleranceFloor /\ 100 * d > percent * basis

Present(rec, fields) == \A f \in fields : ~IsNone(rec[f])

\* the gross-profit check with an absent gross_profit read as 0
GrossProfitErrors_AbsentIsZero(rec) ==
    IF Present(rec, {"revenue", "cogs"})
       /\ LET expected_gross_profit == rec["revenue"].v - rec["cogs"].v
              gross_profit == IF IsNone(rec["gross_profit"]) THEN 0
                              ELSE rec["gross_profit"].v
          IN  OutsideTolerance(gross_profit, expected_gross_profit,
                               Abs(expected_gross_profit), TolerancePercent)
    THEN <<Violation("gross_profit_mismatch", "")>> ELSE <<>>

\* # Gross profit validation
GrossProfitErrors(rec) ==
    IF Present(rec, {"revenue", "cogs", "gross_profit"})
       /\ LET expected_gross_profit == rec["revenue"].v - rec["cogs"].v
          IN  OutsideTolerance(rec["gross_profit"].v, expected_gross_profit,
                               Abs(expected_gross_profit), TolerancePercent)
    THEN <<Violation("gross_profit_mismatch", "")>> ELSE <<>>

\* # Operating income validation
OperatingIncomeErrors(rec) ==
    IF Present(rec, {"gross_profit", "operating_expenses", "operating_income"})
       /\ LET expected_operating_income ==
                  rec["gross_profit"].v - rec["operating_expenses"].v
          IN  OutsideTolerance(rec["operating_income"].v, expected_operating_income,
                               Abs(expected_operating_income), TolerancePercent)
    THEN <<Violation("operating_income_mismatch", "")>> ELSE <<>>

\* # Balance sheet validation
EquityErrors(rec) ==
    IF Present(rec, {"total_assets", "total_liabilities", "equity"})
       /\ LET expected_equity == rec["total_assets"].v - rec["total_liabilities"].v
          IN  OutsideTolerance(rec["equity"].v, expected_equity,
                               Abs(expected_equity), TolerancePercent)
    THEN <<Violation("equity_mismatch", "")>> ELSE <<>>

\* # Logical order validation: gross profit against revenue, operating
\* income against gross profit
OrderErrors(rec) ==
    (IF Present(rec, {"revenue", "gross_profit"})
        /\ rec["gross_profit"].v > rec["revenue"].v
     THEN <<Violation("gross_profit_exceeds_revenue", "")>> ELSE <<>>)
    \o
    (IF Present(rec, {"gross_profit", "operating_income"})
        /\ rec["operating_income"].v > rec["gross_profit"].v
     THEN <<Violation("operating_income_exceeds_gross_profit", "")>> ELSE <<>>)

\* the test without its operating_income > 0 conjunct
NetIncomeUnusuallyHigh_AnySign(net_income, operating_income) ==
    2 * net_income > 3 * operating_income

\* net_income > operating_income * 1.5 and operating_income > 0, in integers
NetIncomeUnusuallyHigh(net_income, operating_income) ==
    2 * net_income > 3 * operating_income /\ operating_income > 0

PlausibilityErrors(rec) ==
    IF Present(rec, {"operating_income", "net_income"})
       /\ NetIncomeUnusuallyHigh(rec["net_income"].v, rec["operating_income"].v)
    THEN <<Violation("net_income_unusually_high", "")>> ELSE <<>>

\* the checks with a raise at the first that fails
validate_financial_logic_FirstOnly(rec) ==
    IF GrossProfitErrors(rec) # <<>> THEN GrossProfitErrors(rec)
    ELSE IF OperatingIncomeErrors(rec) # <<>> THEN OperatingIncomeErrors(rec)
    ELSE IF EquityErrors(rec) # <<>> THEN EquityErrors(rec)
    ELSE IF OrderErrors(rec) # <<>> THEN <<Head(OrderErrors(rec))>>
    ELSE PlausibilityErrors(rec)

\* validate_financial_logic: the list `errors` it builds, in order. The
\* function raises one ValueError that joins them when the list is not empty.
validate_financial_logic(rec) ==
    GrossProfitErrors(rec) \o OperatingIncomeErrors(rec) \o EquityErrors(rec)
    \o OrderErrors(rec) \o PlausibilityErrors(rec)

\* validate_saas_metrics: super().validate_financial_logic() raises first
\* when it has errors; only then is the ARR rule evaluated.
validate_saas_metrics(rec) ==
    IF validate_financial_logic(rec) # <<>> THEN validate_financial_logic(rec)
    ELSE IF Present(rec, {"annual_recurring_revenue", "monthly_recurring_revenue"})
            /\ LET expected_arr == rec["monthly_recurring_revenue"].v * 12
               IN  OutsideTolerance(rec["annual_recurring_revenue"].v, expected_arr,
                                    expected_arr, ArrTolerancePercent)
         THEN <<Violation("arr_mismatch", "")>>
    ELSE <<>>

---------------------------------------------------------------------------
(* validate_financial_data *)

CharsGeneral == <<"g", "e", "n", "e", "r", "a", "l">>
CharsSaas == <<"s", "a", "a", "s">>
CharsSoftware == <<"s", "o", "f", "t", "w", "a", "r", "e">>
CharsRetail == <<"r", "e", "t", "a", "i", "l">>
CharsEcommerce == <<"e", "c", "o", "m", "m", "e", "r", "c", "e">>

\* industry.lower() in ("saas", "software") / ("retail", "ecommerce"), for
\* a tag that is a str
Variant(tag) ==
    IF LowerStr(tag.s) \in {CharsSaas, CharsSoftware} THEN "saas"
    ELSE IF LowerStr(tag.s) \in {CharsRetail, CharsEcommerce} THEN "retail"
    ELSE "general"

FieldOrder(variant) ==
    CASE variant = "saas" -> BaseOrder \o SaaSOrder
      [] variant = "retail" -> BaseOrder \o RetailOrder
      [] OTHER -> BaseOrder

\* the model validators when a subclass without a validator of its own does
\* not run the one of its base class
ModelErrors_NotInherited(variant, rec) ==
    IF variant = "general" THEN validate_financial_logic(rec)
    ELSE IF variant = "saas" THEN validate_saas_metrics(rec)
    ELSE <<>>

\* The model validators of a variant, run in turn; the first that raises ends
\* the validation. The subclass inherits validate_financial_logic.
ModelErrors(variant, rec) ==
    IF validate_financial_logic(rec) # <<>> THEN validate_financial_logic(rec)
    ELSE IF variant = "saas" THEN validate_saas_metrics(rec)
    ELSE <<>>

NoRecord == <<>>

\* Constructing the model class: every declared field is validated and the
\* field violations are collected; the model validators run only on a record
\* whose fields all validated. The result is the record (valid) or the
\* violations the ValidationError carries.
ValidateModel(variant, data, now_year) ==
    LET order == FieldOrder(variant)
        field_errors == FieldErrors(order, data, now_year)
                        \o ExtraErrors(DOMAIN data \ Range(order))
        rec == [f \in Range(order) |-> ValidateField(f, data, now_year).value]
    IN  IF field_errors # <<>>
        THEN [valid |-> FALSE, errors |-> field_errors, record |-> NoRecord]
        ELSE IF ModelErrors(variant, rec) # <<>>
        THEN [valid |-> FALSE, errors |-> ModelErrors(variant, rec), record |-> NoRecord]
        ELSE [valid |-> TRUE, errors |-> <<>>, record |-> rec]

\* validate_financial_data: industry.lower() raises AttributeError on a tag
\* that is no str (None has no attribute lower); otherwise the class the
\* tag selects is constructed from the map.
validate_financial_data(data, tag, now_year) ==
    IF IsStr(tag) THEN ValidateModel(Variant(tag), data, now_year)
    ELSE Raise("AttributeError")

---------------------------------------------------------------------------
(* calculate_margins and get_validation_summary *)

\* A Python float that is the quotient of two ints, kept as the fraction
Ratio(n, d) == [n |-> n, d |-> d]

MarginOf == [gross_margin |-> "gross_profit",
             operating_margin |-> "operating_income",
             net_margin |-> "net_income"]

\* the margins without the test on the sign of revenue
calculate_margins_AnyRevenue(rec) ==
    IF ~IsNone(rec["revenue"])
    THEN [m \in {x \in DOMAIN MarginOf : ~IsNone(rec[MarginOf[x]])} |->
              Ratio(rec[MarginOf[m]].v * 100, rec["revenue"].v)]
    ELSE <<>>

\* calculate_margins: a dict from margin name to (numerator / revenue) * 100
calculate_margins(rec) ==
    IF ~IsNone(rec["revenue"]) /\ rec["revenue"].v # 0 /\ rec["revenue"].v > 0
    THEN [m \in {x \in DOMAIN MarginOf : ~IsNone(rec[MarginOf[x]])} |->
              Ratio(rec[MarginOf[m]].v * 100, rec["revenue"].v)]
    ELSE <<>>

\* total_fields in get_validation_summary
TotalFields == 12

SummaryFields == {"revenue", "cogs", "gross_profit", "operating_expenses",
                  "operating_income", "net_income", "total_assets",
                  "total_liabilities", "equity"}

get_validation_summary(rec) ==
    LET total_fields == TotalFields
        completed_fields == Cardinality({f \in SummaryFields : ~IsNone(rec[f])})
    IN  [completeness_score |-> Ratio(completed_fields, total_fields),
         completed_fields |-> completed_fields,
         total_fields |-> total_fields,
         has_income_statement |-> Present(rec, {"revenue", "net_income"}),
         has_balance_sheet |-> Present(rec, {"total_assets", "total_liabilities", "equity"}),
         margins |-> calculate_margins(rec)]

---------------------------------------------------------------------------
(* The inputs the model explores *)

DigitChar(d) ==
    CASE d = 0 -> "0" [] d = 1 -> "1" [] d = 2 -> "2" [] d = 3 -> "3"
      [] d = 4 -> "4" [] d = 5 -> "5" [] d = 6 -> "6" [] d = 7 -> "7"
      [] d = 8 -> "8" [] d = 9 -> "9"

\* str(n) for n >= 0
RECURSIVE IntToChars(_)
IntToChars(n) ==
    IF n < 10 THEN <<DigitChar(n)>>
    ELSE IntToChars(n \div 10) \o <<DigitChar(n % 10)>>

Opt(S) == {None} \cup {IntV(n) : n \in S}

AcmeName == <<"A", "C", "M", "E", " ", "C", "o", "r", "p">>
Chars2023 == <<"2", "0", "2", "3">>
Chars1899 == <<"1", "8", "9", "9">>

\* the years datetime.now().year may return while the program runs
NowYears == {2025, 2026}

\* the sample of the __main__ block: the ACME record, 6 monetary fields
AcmeData ==
    [company_name |-> StrV(AcmeName), year |-> StrV(Chars2023),
     revenue |-> IntV(1000000), cogs |-> IntV(600000),
     gross_profit |-> IntV(400000), operating_expenses |-> IntV(200000),
     operating_income |-> IntV(200000), net_income |-> IntV(150000)]

\* the same with gross_profit 100000
AcmeBadData == [AcmeData EXCEPT !["gross_profit"] = IntV(100000)]

\* the ACME record with its balance sheet: all 9 monetary fields
AcmeFullData ==
    AcmeData @@ [total_assets |-> IntV(2000000),
                 total_liabilities |-> IntV(800000), equity |-> IntV(1200000)]

\* records over every combination of a few amounts per field
GridData ==
    {[company_name |-> StrV(AcmeName), year |-> StrV(Chars2023),
      revenue |-> rv, cogs |-> cg, gross_profit |-> gp,
      operating_expenses |-> ox, operating_income |-> oi, net_income |-> ni,
      total_assets |-> ta, total_liabilities |-> tl, equity |-> eq] :
        rv \in Opt({-1, 100000, 1000000}),
        cg \in Opt({150000, 600000}),
        gp \in Opt({-50000, 100000, 400000}),
        ox \in Opt({200000}),
        oi \in Opt({-100000, 200000}),
        ni \in Opt({-20000, 150000, 300000, 300001}),
        ta \in Opt({2000000}),
        tl \in Opt({800000}),
        eq \in Opt({-300000, 1200000})}

\* revenue 1,000,000 and cogs 600,000 with every gross_profit around 400,000
BandLow == 395000
BandHigh == 405000
BandData ==
    {[company_name |-> StrV(AcmeName), year |-> StrV(Chars2023),
      revenue |-> IntV(1000000), cogs |-> IntV(600000),
      gross_profit |-> IntV(gp)] : gp \in (BandLow..BandHigh) \cup {350000}}

\* the values of the year field tried against each current year
YearValues(now_year) ==
    {StrV(Chars1899), StrV(<<"1", "9", "0", "0">>), StrV(Chars2023),
     StrV(IntToChars(now_year)), StrV(IntToChars(now_year + 1)),
     StrV(IntToChars(now_year + 2)), StrV(<<"0", "0", "0", "0">>),
     StrV(<<"9", "9", "9", "9">>), StrV(<<"2", "0", "2">>),
     StrV(<<"2", "0", "2", "3", "4">>), StrV(<<"2", "0", "a", "3">>),
     IntV(2023), None}

YearData(now_year) ==
    {[d EXCEPT !["year"] = y] :
        d \in {AcmeData, AcmeBadData, AcmeFullData}, y \in YearValues(now_year)}

\* records with the SaaS fields, and records that lack a required key
VariantData ==
    {d @@ arr @@ mrr :
        d \in {AcmeData, AcmeBadData},
        arr \in {<<>>} \cup {[annual_recurring_revenue |-> x] : x \in Opt({120000, 200000})},
        mrr \in {<<>>} \cup {[monthly_recurring_revenue |-> x] : x \in Opt({10000})}}
    \cup {[revenue |-> IntV(100000)],
          [company_name |-> StrV(<<" ">>), year |-> StrV(Chars2023)],
          [company_name |-> StrV(<<>>), year |-> StrV(Chars2023)],
          [company_name |-> StrV(<<" ", "A", " ", " ", "B", " ">>), year |-> StrV(Chars2023)]}

IndustryTags ==
    {StrV(CharsGeneral), StrV(CharsSaas), StrV(CharsSoftware), StrV(CharsRetail),
     StrV(CharsEcommerce), StrV(<<"S", "a", "a", "S">>)}

General == StrV(CharsGeneral)

Input(d, tag, now_year) == [data |-> d, industry |-> tag, now_year |-> now_year]

\* records around the revenue test of calculate_margins: revenue absent, 0
\* or positive, each numerator absent or a loss
MarginData ==
    {[company_name |-> StrV(AcmeName), year |-> StrV(Chars2023),
      revenue |-> rv, gross_profit |-> gp, operating_income |-> oi,
      net_income |-> ni] :
        rv \in Opt({0, 150000}), gp \in Opt({-50000}),
        oi \in Opt({-100000}), ni \in Opt({-20000})}

Inputs ==
    {Input(d, General, 2026) : d \in GridData \cup BandData \cup MarginData}
    \cup UNION {{Input(d, General, ny) : d \in YearData(ny)} : ny \in NowYears}
    \cup {Input(d, tag, 2026) : d \in VariantData, tag \in IndustryTags}

\* records with the SaaS recurring revenues around the edges of the band:
\* 12 * 1000 +- 1000 and 12 * 10000 +- 6000
ArrValues ==
    {-1, 0, 1000, 1001, 10999, 11000, 12000, 13000, 13001,
     113999, 114000, 120000, 126000, 126001}
MrrValues == {0, 1000, 10000}

ArrData ==
    {d @@ arr @@ mrr :
        d \in {AcmeData, AcmeBadData},
        arr \in {<<>>} \cup {[annual_recurring_revenue |-> x] : x \in Opt(ArrValues)},
        mrr \in {<<>>} \cup {[monthly_recurring_revenue |-> x] : x \in Opt(MrrValues)}}

\* the tags of IndustryTags, tags in other letter case, a tag that names no
\* variant, and no tag (None)
SchemaTags ==
    IndustryTags
    \cup {StrV(<<"R", "E", "T", "A", "I", "L">>), StrV(<<"b", "a", "n", "k">>),
          StrV(<<>>), None}

\* records whose identities expect a negative amount: operating income
\* -50,000 - 200,000 = -250,000 and equity 800,000 - 2,000,000 = -1,200,000,
\* with actual amounts around the expected one
ToleranceData ==
    {[company_name |-> StrV(AcmeName), year |-> StrV(Chars2023),
      gross_profit |-> IntV(-50000), operating_expenses |-> IntV(200000),
      operating_income |-> IntV(-250000 + d)] :
        d \in {-2501, -2500, -2000, -1001, -1000, 0, 1000, 1001, 2000, 2500, 2501}}
    \cup
    {[company_name |-> StrV(AcmeName), year |-> StrV(Chars2023),
      total_assets |-> IntV(800000), total_liabilities |-> IntV(2000000),
      equity |-> IntV(-1200000 + d)] :
        d \in {-12001, -12000, -5000, -1001, -1000, 0, 1000, 1001, 5000, 12000, 12001}}

SchemaInputs ==
    UNION {{Input(d, tag, ny) :
                d \in YearData(ny) \cup VariantData \cup ArrData, tag \in SchemaTags} :
           ny \in NowYears}
    \cup {Input(d, General, 2026) : d \in ToleranceData}

\* Raw strings for a monetary field: every string of at most MaxStrLen
\* characters over an alphabet of the characters coercion looks at, and the
\* longer strings the documentation names.
MaxStrLen == 3
CoerceAlphabet == {"$", ",", "(", ")", "-", ".", "1", "5", " "}

StringsUpTo(n) == UNION {[1..k -> CoerceAlphabet] : k \in 0..n}

ExampleStrings ==
    {<<"$", "1", ",", "0", "0", "0", ",", "0", "0", "0">>,
     <<"(", "5", "0", "0", ",", "0", "0", "0", ")">>,
     <<"a", "b", "c">>,
     <<"i", "n", "f">>, <<"-", "i", "n", "f">>,
     <<"I", "n", "f", "i", "n", "i", "t", "y">>,
     <<"n", "a", "n">>, <<"N", "a", "N">>,
     <<"1", "e", "3">>, <<"1", "5", "e", "-", "1">>, <<"2", "E", "+", "2">>,
     <<"1", "e", "9", "9", "9">>, <<"1", "e", "-", "9", "9", "9">>,
     <<"(", "1", ".", "9", ")">>, <<"-", "1", ".", "9">>, <<"$", "0", ".", "9">>,
     <<"n", "u", "l", "l">>, <<" ", "n", "u", "l", "l", " ">>,
     <<"1", "e">>, <<"e", "5">>, <<"1", ".", "5", ".", "1">>}

CoerceFields == {"revenue", "gross_profit"}

CoerceData ==
    {[company_name |-> StrV(AcmeName), year |-> StrV(Chars2023)]
        @@ (f :> StrV(str)) :
        f \in CoerceFields, str \in StringsUpTo(MaxStrLen) \cup ExampleStrings}

CoerceInputs == {Input(d, General, 2026) : d \in CoerceData}

---------------------------------------------------------------------------
(* The pipeline clean_financial_data -> validate_financial_data ->
   get_validation_summary on one raw field map *)

NoClean == [raised |-> FALSE, kind |-> "", data |-> <<>>]
NoOutcome == [valid |-> FALSE, errors |-> <<>>, record |-> NoRecord]
NoSummary == <<>>
NoBatchOutcome == [valid |-> FALSE, errors |-> <<>>]

\* no pipeline, no batch and no text in hand
PipelineIdle ==
    /\ raw = <<>> /\ industry = General /\ current_year \in NowYears
    /\ pc = "idle" /\ cleaned = NoClean /\ recleaned = NoClean
    /\ outcome = NoOutcome
    /\ summary = NoSummary

BatchIdle == batch = <<>> /\ bpc = "idle" /\ boutcome = NoBatchOutcome

\* nothing scanned yet
ScanIdle == tables = <<>> /\ company_info = <<>> /\ keywords = <<>>

TextIdle ==
    /\ text = <<>> /\ max_chunk_size = 0 /\ tpc = "idle"
    /\ once = <<>> /\ twice = <<>> /\ chunks = <<>>
    /\ ScanIdle

\* the /ingest handler at rest: no requests
IngestIdle ==
    /\ rpc = <<>> /\ rdata = <<>> /\ rarg = <<>> /\ rrec = <<>>
    /\ rstatus = <<>> /\ store = <<>>

PipelineInit(inputs) ==
    /\ \E in \in inputs :
          /\ raw = in.data
          /\ industry = in.industry
          /\ current_year = in.now_year
    /\ pc = "start"
    /\ cleaned = NoClean
    /\ recleaned = NoClean
    /\ outcome = NoOutcome
    /\ summary = NoSummary
    /\ IngestIdle /\ BatchIdle /\ TextIdle

Init == PipelineInit(Inputs)

InitCoerce == PipelineInit(CoerceInputs)

\* cleaned = clean_financial_data(raw), or the exception it raises
Clean ==
    /\ pc = "start"
    /\ cleaned' = clean_financial_data(raw)
    /\ pc' = IF clean_financial_data(raw).raised THEN "raised" ELSE "cleaned"
    /\ UNCHANGED <<raw, industry, current_year, recleaned, outcome, summary,
                   ingestVars, batchVars, textVars>>

\* outcome = validate_financial_data(cleaned, industry), or the exception
\* the call raises before it constructs a model
Validate ==
    /\ pc = "cleaned"
    /\ outcome' = validate_financial_data(cleaned.data, industry, current_year)
    /\ pc' = IF IsStr(industry) THEN "validated" ELSE "failed"
    /\ UNCHANGED <<raw, industry, current_year, cleaned, recleaned, summary,
                   ingestVars, batchVars, textVars>>

\* summary = validated_data.get_validation_summary()
Summarize ==
    /\ pc = "validated"
    /\ outcome.valid
    /\ summary' = get_validation_summary(outcome.record)
    /\ pc' = "summarized"
    /\ UNCHANGED <<raw, industry, current_year, cleaned, recleaned, outcome,
                   ingestVars, batchVars, textVars>>

Next == Clean \/ Validate \/ Summarize

Spec == Init /\ [][Next]_vars

SpecCoerce == InitCoerce /\ [][Next]_vars

\* the strings of a field that is no monetary field: blank, 'null' alone and
\* between white space, a name between white space
NameStrings ==
    {AcmeName, <<>>, <<" ">>, <<" ", "\t">>, CharsNull,
     <<" ">> \o CharsNull \o <<" ">>, <<" ", "A", " ">>}

RecoerceData ==
    {[company_name |-> name, year |-> year, revenue |-> revenue] :
        name \in {None} \cup {StrV(str) : str \in NameStrings},
        year \in {StrV(Chars2023), StrV(<<" ">> \o Chars2023), IntV(2023)},
        revenue \in {None, IntV(5), StrV(<<"(", "5", ")">>), StrV(<<" ">>),
                     StrV(<<" ">> \o CharsNull), StrV(<<"$", "1", ",", "5">>)}}

InitRecoerce ==
    PipelineInit(CoerceInputs \cup {Input(d, General, 2026) : d \in RecoerceData})

\* recleaned = clean_financial_data(cleaned): the function applied to the
\* map it returned
CleanCleaned ==
    /\ pc = "cleaned"
    /\ recleaned' = clean_financial_data(cleaned.data)
    /\ pc' = "recleaned"
    /\ UNCHANGED <<raw, industry, current_year, cleaned, outcome, summary,
                   ingestVars, batchVars, textVars>>

SpecRecoerce == InitRecoerce /\ [][Clean \/ CleanCleaned]_vars

\* record.field = value on the validated record. The model has
\* validate_assignment=True and is not frozen: an attribute that is no field
\* is refused (extra="forbid"); the value is validated as the field is; the
\* validated value is stored in the record; then the model validators run on
\* the record and may raise. Whether a record whose model validators raise
\* keeps the new value depends on the pydantic release, so both are allowed.
AssignFields ==
    {"company_name", "year", "revenue", "gross_profit", "net_income",
     "annual_recurring_revenue", "notes"}

AssignValues ==
    {None, IntV(-1), IntV(400000), IntV(1000000), StrV(<<"Z", "e", "d">>), StrV(Chars1899)}

AssignTo(field, value) ==
    LET result == ValidateField(field, (field :> value), current_year)
        record == [outcome.record EXCEPT ![field] = result.value]
    IN  IF field \notin DOMAIN outcome.record \/ result.errs # <<>>
        THEN pc' = "assign_raised" /\ UNCHANGED outcome
        ELSE IF ModelErrors(Variant(industry), record) # <<>>
        THEN /\ pc' = "assign_raised"
             /\ outcome' \in {outcome, [outcome EXCEPT !.record = record]}
        ELSE /\ pc' = "assigned"
             /\ outcome' = [outcome EXCEPT !.record = record]

Assign ==
    /\ pc \in {"validated", "summarized"}
    /\ outcome.valid
    /\ \E field \in AssignFields, value \in AssignValues : AssignTo(field, value)
    /\ UNCHANGED <<raw, industry, current_year, cleaned, recleaned, summary,
                   ingestVars, batchVars, textVars>>

RecordInputs == {Input(d, tag, 2026) : d \in VariantData, tag \in IndustryTags}

InitRecord == PipelineInit(RecordInputs)

NextRecord == Clean \/ Validate \/ Summarize \/ Assign

\* the pipeline followed by one assignment to a field of the record
SpecRecord == InitRecord /\ [][NextRecord]_vars

\* the pipeline over every tag and both current years
InitSchema == PipelineInit(SchemaInputs)

SpecSchema == InitSchema /\ [][Next]_vars

---------------------------------------------------------------------------
(* POST /ingest: ingest_document, one process per request. The handler runs
   to its await on the LLM, then to the query of the table, then to the
   commit: other requests (the server runs several workers) may run between
   these steps. *)

NumRequests == 2
Requests == 1..NumRequests

OtherName == <<"B", "e", "t", "a">>

\* what the LLM may return as structured_data (json.loads of its answer)
LlmOutputs ==
    {AcmeData, AcmeBadData,
     [AcmeData EXCEPT !["company_name"] = StrV(OtherName)],
     [AcmeData EXCEPT !["revenue"] =
          StrV(<<"$", "1", ",", "0", "0", "0", ",", "0", "0", "0">>)],
     [AcmeData EXCEPT !["revenue"] =
          StrV(<<"1", "0", "0", "0", "0", "0", "0">>)],
     [AcmeData EXCEPT !["net_income"] = None]}

\* the columns of FinancialStatement that ingest_document fills from the record
StoredFields == {"company_name", "year", "revenue", "cogs", "gross_profit",
                 "operating_expenses", "operating_income", "net_income",
                 "total_assets", "total_liabilities", "equity"}

\* db_record = FinancialStatement(...), with the id the table assigns
NewRow(rec, table) ==
    [f \in StoredFields |-> rec[f]] @@ [id |-> IntV(Len(table) + 1)]

\* db.query(FinancialStatement).filter(company_name ==, year ==).first()
ExistingRecord(rec, table) ==
    \E i \in 1..Len(table) :
        /\ table[i]["company_name"] = rec["company_name"]
        /\ table[i]["year"] = rec["year"]

InitIngest ==
    /\ PipelineIdle /\ BatchIdle /\ TextIdle
    /\ rpc = [r \in Requests |-> "idle"]
    /\ rdata = [r \in Requests |-> <<>>]
    /\ rarg = [r \in Requests |-> <<>>]
    /\ rrec = [r \in Requests |-> NoRecord]
    /\ rstatus = [r \in Requests |-> 0]
    /\ store = <<>>

Respond(r, status) ==
    /\ rstatus' = [rstatus EXCEPT ![r] = status]
    /\ rpc' = [rpc EXCEPT ![r] = "done"]

\* lines 75-91: the file type check and the text extraction; 400 when the
\* file is no .pdf or no text could be extracted
Receive(r) ==
    /\ rpc[r] = "idle"
    /\ \E is_pdf \in BOOLEAN, has_text \in BOOLEAN :
          IF is_pdf /\ has_text
          THEN rpc' = [rpc EXCEPT ![r] = "llm"] /\ UNCHANGED rstatus
          ELSE Respond(r, 400)
    /\ UNCHANGED <<pipeVars, batchVars, textVars, rdata, rarg, rrec, store>>

\* the handler without the validation: structured_data goes on as the
\* record to store
LlmReturn_Unvalidated(r) ==
    /\ rpc[r] = "llm"
    /\ \E structured_data \in LlmOutputs :
          /\ rdata' = [rdata EXCEPT ![r] = structured_data]
          /\ rarg' = [rarg EXCEPT ![r] = structured_data]
          /\ rrec' = [rrec EXCEPT ![r] =
                         [f \in StoredFields |-> Get(structured_data, f)]]
          /\ rpc' = [rpc EXCEPT ![r] = "query"]
          /\ UNCHANGED rstatus
    /\ UNCHANGED <<pipeVars, batchVars, textVars, store>>

\* lines 94-105: the LLM returns structured_data, which is handed to
\* validate_financial_data as it is; 422 when the validation raises
LlmReturn(r) ==
    /\ rpc[r] = "llm"
    /\ \E structured_data \in LlmOutputs :
          LET result == validate_financial_data(structured_data, General, current_year)
          IN  /\ rdata' = [rdata EXCEPT ![r] = structured_data]
              /\ rarg' = [rarg EXCEPT ![r] = structured_data]
              /\ IF result.valid
                 THEN /\ rrec' = [rrec EXCEPT ![r] = result.record]
                      /\ rpc' = [rpc EXCEPT ![r] = "query"]
                      /\ UNCHANGED rstatus
                 ELSE /\ Respond(r, 422)
                      /\ UNCHANGED rrec
    /\ UNCHANGED <<pipeVars, batchVars, textVars, store>>

\* extract_financial_data raises (the answer holds no JSON): the handler's
\* except Exception answers 500
LlmFail(r) ==
    /\ rpc[r] = "llm"
    /\ Respond(r, 500)
    /\ UNCHANGED <<pipeVars, batchVars, textVars, rdata, rarg, rrec, store>>

\* lines 108-117: the query for an existing record; 409 when there is one
Query(r) ==
    /\ rpc[r] = "query"
    /\ IF ExistingRecord(rrec[r], store)
       THEN Respond(r, 409)
       ELSE rpc' = [rpc EXCEPT ![r] = "commit"] /\ UNCHANGED rstatus
    /\ UNCHANGED <<pipeVars, batchVars, textVars, rdata, rarg, rrec, store>>

\* lines 120-146: db.add, db.commit, and the 200 response
Commit(r) ==
    /\ rpc[r] = "commit"
    /\ store' = Append(store, NewRow(rrec[r], store))
    /\ Respond(r, 200)
    /\ UNCHANGED <<pipeVars, batchVars, textVars, rdata, rarg, rrec>>

NextIngest ==
    \E r \in Requests :
        Receive(r) \/ LlmReturn(r) \/ LlmFail(r) \/ Query(r) \/ Commit(r)

SpecIngest == InitIngest /\ [][NextIngest]_vars

---------------------------------------------------------------------------
(* FinancialDataBatch(records=batch): each item of the list is validated as
   a FinancialData, the list must hold an item, and then the validator of
   the field looks for a duplicate *)

MinItems == 1

\* the violations of the items of a List[FinancialData], in order
RECURSIVE ItemErrors(_, _)
ItemErrors(items, now_year) ==
    IF items = <<>> THEN <<>>
    ELSE ValidateModel("general", Head(items), now_year).errors
         \o ItemErrors(Tail(items), now_year)

\* the key of a record when the name is compared as it is written
RecordKey_CaseSensitive(record) == <<record["company_name"].s, record["year"]>>

\* key = (record.company_name.lower(), record.year)
RecordKey(record) == <<LowerStr(record["company_name"].s), record["year"]>>

\* validate_unique_company_years: the loop over the records from record i
\* on, with the keys seen so far; it raises at the first key seen before
RECURSIVE validate_unique_company_years(_, _, _)
validate_unique_company_years(v, i, seen) ==
    IF i > Len(v) THEN <<>>
    ELSE IF RecordKey(v[i]) \in seen
    THEN <<Violation("duplicate_record", "records")>>
    ELSE validate_unique_company_years(v, i + 1, seen \cup {RecordKey(v[i])})

\* FinancialDataBatch(records=items)
FinancialDataBatch(items, now_year) ==
    LET records == [i \in 1..Len(items) |->
                        ValidateModel("general", items[i], now_year).record]
    IN  IF ItemErrors(items, now_year) # <<>>
        THEN [valid |-> FALSE, errors |-> ItemErrors(items, now_year)]
        ELSE IF Len(items) < MinItems
        THEN [valid |-> FALSE, errors |-> <<Violation("too_short", "records")>>]
        ELSE IF validate_unique_company_years(records, 1, {}) # <<>>
        THEN [valid |-> FALSE, errors |-> validate_unique_company_years(records, 1, {})]
        ELSE [valid |-> TRUE, errors |-> <<>>]

\* the batches explored: at most MaxBatch maps, of two companies written in
\* several ways and two years, and a map that is not valid on its own
MaxBatch == 3

BatchNames ==
    {<<"A", "b">>, <<"a", "B">>, <<" ", "A", "b", " ">>, <<"C", "d">>}
BatchYears == {Chars2023, <<"2", "0", "2", "4">>}

BatchItems ==
    {[company_name |-> StrV(n), year |-> StrV(y), revenue |-> IntV(100000)] :
        n \in BatchNames, y \in BatchYears}
    \cup {[company_name |-> StrV(<<"A", "b">>), year |-> StrV(Chars1899)]}

Batches == UNION {[1..k -> BatchItems] : k \in 0..MaxBatch}

InitBatch ==
    /\ PipelineIdle /\ IngestIdle /\ TextIdle
    /\ batch \in Batches
    /\ bpc = "start"
    /\ boutcome = NoBatchOutcome

ConstructBatch ==
    /\ bpc = "start"
    /\ boutcome' = FinancialDataBatch(batch, current_year)
    /\ bpc' = "done"
    /\ UNCHANGED <<pipeVars, ingestVars, textVars, batch>>

NextBatch == ConstructBatch

SpecBatch == InitBatch /\ [][NextBatch]_vars

---------------------------------------------------------------------------
(* clean_text (src/utils.py): the regular expressions, each applied as
   re.sub applies it: the text is scanned from the left, a match is replaced
   and the scan goes on after the match *)

\* lit occurs in s at position i
MatchAt(s, i, lit) ==
    i + Len(lit) - 1 <= Len(s) /\ SubSeq(s, i, i + Len(lit) - 1) = lit

\* the position after the longest run of characters of class that starts at
\* position i (i itself when there is none)
RunEnd(s, i, class) ==
    SetMin({j \in i..(Len(s) + 1) : j = Len(s) + 1 \/ s[j] \notin class})

CharsPageOpen == <<"-", "-", "-", " ", "P", "a", "g", "e", " ">>
CharsTableOpen == <<"-", "-", "-", " ", "T", "a", "b", "l", "e", " ">>
CharsTablePage == <<" ", "(", "P", "a", "g", "e", " ">>
CharsTableClose == <<")", " ", "-", "-", "-">>
CharsMarkerClose == <<" ", "-", "-", "-">>
CharsTableMarker == <<"\n", "T", "A", "B", "L", "E", ":", "\n">>

\* the position after lit followed by \d+, or 0
AfterNumbered(s, i, lit) ==
    IF MatchAt(s, i, lit) /\ RunEnd(s, i + Len(lit), Digits) > i + Len(lit)
    THEN RunEnd(s, i + Len(lit), Digits) ELSE 0

\* the position after lit at position i, or 0; 0 when i is 0
AfterLit(s, i, lit) ==
    IF i > 0 /\ MatchAt(s, i, lit) THEN i + Len(lit) ELSE 0

\* r'--- Page \d+ ---'
PageMarkerEnd(s, i) ==
    LET e == AfterLit(s, AfterNumbered(s, i, CharsPageOpen), CharsMarkerClose)
    IN  IF e > 0 THEN e ELSE i

\* r'--- Table \d+ \(Page \d+\) ---'
TableMarkerEnd(s, i) ==
    LET n == AfterNumbered(s, i, CharsTableOpen)
        m == IF n > 0 THEN AfterNumbered(s, n, CharsTablePage) ELSE 0
        e == AfterLit(s, m, CharsTableClose)
    IN  IF e > 0 THEN e ELSE i

\* r'\$\s*'
DollarEnd(s, i) == IF s[i] = "$" THEN RunEnd(s, i + 1, Whitespace) ELSE i

\* r'(\d),(\d)'
DigitCommaDigitEnd(s, i) ==
    IF i + 2 <= Len(s) /\ s[i] \in Digits /\ s[i + 1] = "," /\ s[i + 2] \in Digits
    THEN i + 3 ELSE i

\* r'\n\s*\n\s*\n+': from a line break, the run of white space up to its
\* last line break, when the run holds three line breaks or more
BlankLinesEnd(s, i) ==
    LET breaks == {j \in i..(RunEnd(s, i, Whitespace) - 1) : s[j] = "\n"}
    IN  IF s[i] = "\n" /\ Cardinality(breaks) >= 3
        THEN (CHOOSE j \in breaks : \A k \in breaks : k <= j) + 1
        ELSE i

\* the patterns of clean_text after the first, by name
MatchEnd(pattern, s, i) ==
    CASE pattern = "page" -> PageMarkerEnd(s, i)
      [] pattern = "table" -> TableMarkerEnd(s, i)
      [] pattern = "dollar" -> DollarEnd(s, i)
      [] pattern = "comma" -> DigitCommaDigitEnd(s, i)
      [] pattern = "blank" -> BlankLinesEnd(s, i)

\* the replacement of the match of a pattern at position i
Repl(pattern, s, i) ==
    CASE pattern = "page" -> <<>>
      [] pattern = "table" -> CharsTableMarker
      [] pattern = "dollar" -> <<"$">>
      [] pattern = "comma" -> <<s[i], s[i + 2]>>
      [] pattern = "blank" -> <<"\n", "\n">>

\* re.sub(pattern, repl, s) from position i on. MatchEnd is the position
\* after the match of the pattern at i, or i when there is none (no pattern
\* here matches the empty text).
RECURSIVE ReSub(_, _, _)
ReSub(pattern, s, i) ==
    IF i > Len(s) THEN <<>>
    ELSE IF MatchEnd(pattern, s, i) > i
    THEN Repl(pattern, s, i) \o ReSub(pattern, s, MatchEnd(pattern, s, i))
    ELSE <<s[i]>> \o ReSub(pattern, s, i + 1)

\* text = re.sub(r'(\d),(\d)', r'\1\2', text): one pass
RemoveCommas(s) == ReSub("comma", s, 1)

RemoveMarkers(s) == ReSub("table", ReSub("page", s, 1), 1)

NormalizeCurrency(s) == RemoveCommas(ReSub("dollar", s, 1))

clean_text(t) ==
    IF t = <<>> THEN <<>>
    ELSE Strip(ReSub("blank", NormalizeCurrency(RemoveMarkers(NormalizeSpace(t))), 1))

---------------------------------------------------------------------------
(* chunk_text_for_llm (src/utils.py) *)

CharsParagraphBreak == <<"\n", "\n">>
CharsSentenceBreak == <<".", " ">>

\* the first position at which sep occurs in s, or 0
FirstAt(s, sep) ==
    IF \E i \in 1..Len(s) : MatchAt(s, i, sep)
    THEN SetMin({i \in 1..Len(s) : MatchAt(s, i, sep)}) ELSE 0

\* s.split(sep)
RECURSIVE Split(_, _)
Split(s, sep) ==
    IF FirstAt(s, sep) = 0 THEN <<s>>
    ELSE <<SubSeq(s, 1, FirstAt(s, sep) - 1)>>
         \o Split(SubSeq(s, FirstAt(s, sep) + Len(sep), Len(s)), sep)

\* the state of the loops: the chunks appended so far and current_chunk
Packing(done, current) == [chunks |-> done, current_chunk |-> current]

\* if len(current_chunk) + len(piece) > max_chunk_size and current_chunk:
\*     chunks.append(current_chunk.strip()); current_chunk = ""
FlushBefore(st, piece, max) ==
    IF Len(st.current_chunk) + Len(piece) > max /\ st.current_chunk # <<>>
    THEN Packing(Append(st.chunks, Strip(st.current_chunk)), <<>>)
    ELSE st

\* one turn of the loop over the sentences: current_chunk += sentence + ". "
AddSentence(st, sentence, max) ==
    Packing(FlushBefore(st, sentence, max).chunks,
            FlushBefore(st, sentence, max).current_chunk \o sentence
                \o CharsSentenceBreak)

RECURSIVE SentenceLoop(_, _, _)
SentenceLoop(st, sentences, max) ==
    IF sentences = <<>> THEN st
    ELSE SentenceLoop(AddSentence(st, Head(sentences), max), Tail(sentences), max)

\* one turn of the loop over the paragraphs
AddParagraph(st, paragraph, max) ==
    IF Len(paragraph) > max
    THEN SentenceLoop(FlushBefore(st, paragraph, max),
                      Split(paragraph, CharsSentenceBreak), max)
    ELSE Packing(FlushBefore(st, paragraph, max).chunks,
                 FlushBefore(st, paragraph, max).current_chunk \o paragraph
                     \o CharsParagraphBreak)

RECURSIVE ParagraphLoop(_, _, _)
ParagraphLoop(st, paragraphs, max) ==
    IF paragraphs = <<>> THEN st
    ELSE ParagraphLoop(AddParagraph(st, Head(paragraphs), max), Tail(paragraphs), max)

\* the chunks, with the last current_chunk when it has content
LastChunk(st) ==
    IF Strip(st.current_chunk) # <<>>
    THEN Append(st.chunks, Strip(st.current_chunk)) ELSE st.chunks

chunk_text_for_llm(t, max) ==
    IF Len(t) <= max THEN <<t>>
    ELSE LastChunk(ParagraphLoop(Packing(<<>>, <<>>),
                                 Split(t, CharsParagraphBreak), max))

---------------------------------------------------------------------------
(* detect_table_structure (src/utils.py) *)

CharsNewline == <<"\n">>
CharsTab == <<"\t">>

\* re.search(r'\s{3,}', line)
HasWideGap(line) ==
    \E i \in 1..Len(line) : RunEnd(line, i, Whitespace) >= i + 3

\* if '\t' in line or re.search(r'\s{3,}', line)
TableLike(line) == "\t" \in Range(line) \/ HasWideGap(line)

\* re.split(r'\s{3,}', s) from position i on; cell is the piece before i
RECURSIVE ReSplit(_, _, _)
ReSplit(s, i, cell) ==
    IF i > Len(s) THEN <<cell>>
    ELSE IF RunEnd(s, i, Whitespace) >= i + 3
    THEN <<cell>> \o ReSplit(s, RunEnd(s, i, Whitespace), <<>>)
    ELSE ReSplit(s, i + 1, Append(cell, s[i]))

\* # Split by tabs or multiple spaces
SplitCells(line) ==
    IF "\t" \in Range(line) THEN Split(line, CharsTab)
    ELSE ReSplit(line, 1, <<>>)

\* the tables without the one still open at the end of the text
LastTable_Dropped(st) == st.tables

\* [cell.strip() for cell in cells if cell.strip()]
RECURSIVE CleanCells(_)
CleanCells(cells) ==
    IF cells = <<>> THEN <<>>
    ELSE (IF Strip(Head(cells)) = <<>> THEN <<>> ELSE <<Strip(Head(cells))>>)
         \o CleanCells(Tail(cells))

\* max(len(row) for row in current_table) if current_table else 0
ColumnCount(current_table) ==
    IF current_table = <<>> THEN 0
    ELSE CHOOSE n \in {Len(current_table[i]) : i \in DOMAIN current_table} :
             \A i \in DOMAIN current_table : Len(current_table[i]) <= n

\* the dict appended to tables
Table(current_table) ==
    [rows |-> current_table, row_count |-> Len(current_table),
     column_count |-> ColumnCount(current_table)]

\* the state of the loop over the lines
TableScan(found, current_table, in_table) ==
    [tables |-> found, current_table |-> current_table, in_table |-> in_table]

\* a line that looks like a table row
TableLine(st, line) ==
    LET current_table == IF st.in_table THEN st.current_table ELSE <<>>
        cells == CleanCells(SplitCells(line))
    IN  TableScan(st.tables,
                  IF cells # <<>> THEN Append(current_table, cells)
                  ELSE current_table,
                  TRUE)

\* # End of table
OtherLine(st) ==
    IF st.in_table /\ st.current_table # <<>>
    THEN TableScan(Append(st.tables, Table(st.current_table)), <<>>, FALSE)
    ELSE TableScan(st.tables, st.current_table, FALSE)

RECURSIVE LineLoop(_, _)
LineLoop(st, lines) ==
    IF lines = <<>> THEN st
    ELSE LineLoop(IF TableLike(Head(lines)) THEN TableLine(st, Head(lines))
                  ELSE OtherLine(st),
                  Tail(lines))

\* # Don't forget the last table
LastTable(st) ==
    IF st.in_table /\ st.current_table # <<>>
    THEN Append(st.tables, Table(st.current_table)) ELSE st.tables

detect_table_structure(t) ==
    LastTable(LineLoop(TableScan(<<>>, <<>>, FALSE), Split(t, CharsNewline)))

---------------------------------------------------------------------------
(* extract_company_info (src/utils.py): each pattern as re.search applies it
   under re.IGNORECASE, the leftmost match with greedy repetitions *)

Letters == Range(UpperLetters) \cup Range(LowerLetters)

\* [a-zA-Z\s&,\.] and, under re.IGNORECASE, [A-Z\s&]
NameChars == Letters \cup Whitespace \cup {"&", ",", "."}
CapsChars == Letters \cup Whitespace \cup {"&"}

CharsInc == <<"I", "n", "c">>
CharsCorp == <<"C", "o", "r", "p">>
CharsLLC == <<"L", "L", "C">>
CharsLtd == <<"L", "t", "d">>
CharsCompany == <<"C", "o", "m", "p", "a", "n", "y">>
CharsCorporation == <<"C", "o", "r", "p", "o", "r", "a", "t", "i", "o", "n">>
CharsCompanyLabel == <<"C", "O", "M", "P", "A", "N", "Y", ":">>
CharsFinancial == <<"F", "I", "N", "A", "N", "C", "I", "A", "L">>
CharsAnnual == <<"A", "N", "N", "U", "A", "L">>
CharsIncome == <<"I", "N", "C", "O", "M", "E">>
CharsForTheYearEnded ==
    <<"F", "O", "R", " ", "T", "H", "E", " ", "Y", "E", "A", "R", " ", "E",
      "N", "D", "E", "D">>
CharsYearEnded == <<"Y", "E", "A", "R", " ", "E", "N", "D", "E", "D">>
CharsDecember31 == <<"D", "E", "C", "E", "M", "B", "E", "R", " ", "3", "1">>
CharsAnnualReport ==
    <<"A", "N", "N", "U", "A", "L", " ", "R", "E", "P", "O", "R", "T">>
CharsFiscalYear == <<"F", "I", "S", "C", "A", "L", " ", "Y", "E", "A", "R">>
CharsIncomeStatement ==
    <<"I", "N", "C", "O", "M", "E", " ", "S", "T", "A", "T", "E", "M", "E",
      "N", "T">>
CharsProfit == <<"P", "R", "O", "F", "I", "T">>
CharsAnd == <<"A", "N", "D">>
CharsLoss == <<"L", "O", "S", "S">>
CharsPAndL == <<"P", "&", "L">>
CharsBalanceSheet ==
    <<"B", "A", "L", "A", "N", "C", "E", " ", "S", "H", "E", "E", "T">>
CharsFinancialPosition ==
    <<"S", "T", "A", "T", "E", "M", "E", "N", "T", " ", "O", "F", " ", "F",
      "I", "N", "A", "N", "C", "I", "A", "L", " ", "P", "O", "S", "I", "T",
      "I", "O", "N">>
CharsCashFlowStatement ==
    <<"C", "A", "S", "H", " ", "F", "L", "O", "W", " ", "S", "T", "A", "T",
      "E", "M", "E", "N", "T">>
CharsCashFlows ==
    <<"S", "T", "A", "T", "E", "M", "E", "N", "T", " ", "O", "F", " ", "C",
      "A", "S", "H", " ", "F", "L", "O", "W", "S">>
CharsQuarterlyReport ==
    <<"Q", "U", "A", "R", "T", "E", "R", "L", "Y", " ", "R", "E", "P", "O",
      "R", "T">>
Chars10K == <<"1", "0", "-", "K">>
Chars10Q == <<"1", "0", "-", "Q">>

SetMax(S) == CHOOSE x \in S : \A y \in S : y <= x

\* lit matches at position i, letters compared without their case
MatchAtCI(s, i, lit) ==
    /\ i + Len(lit) - 1 <= Len(s)
    /\ \A j \in DOMAIN lit :
           s[i + j - 1] = lit[j] \/ Lower(s[i + j - 1]) = Lower(lit[j])

\* the position after the first of the alternatives that matches at i, or 0
AltEnd(s, i, alts) ==
    IF \E j \in DOMAIN alts : MatchAtCI(s, i, alts[j])
    THEN i + Len(alts[SetMin({j \in DOMAIN alts : MatchAtCI(s, i, alts[j])})])
    ELSE 0

\* \d{4} at position i
FourDigits(s, i) ==
    i >= 1 /\ i + 3 <= Len(s) /\ \A j \in i..(i + 3) : s[j] \in Digits

\* the position after \s+ at position i, or 0
GapEnd(s, i) ==
    IF i >= 1 /\ i <= Len(s) /\ s[i] \in Whitespace
    THEN RunEnd(s, i, Whitespace) ELSE 0

\* a match object: whether the pattern matched, and match.group(1)
NoMatch == [found |-> FALSE, start |-> 0, group |-> <<>>]
Group(s, i, from, to) ==
    [found |-> TRUE, start |-> i, group |-> SubSeq(s, from, to - 1)]

LegalSuffixes ==
    <<CharsInc, CharsCorp, CharsLLC, CharsLtd, CharsCompany, CharsCorporation>>

\* r'([A-Z][a-zA-Z\s&,\.]+(?:Inc|Corp|LLC|Ltd|Company|Corporation))' at i:
\* the name runs to the last place where a suffix follows
LegalName(s, i) ==
    LET ends == {k \in (i + 2)..(RunEnd(s, i + 1, NameChars) - 1) :
                    AltEnd(s, k, LegalSuffixes) > 0}
    IN  IF s[i] \in Letters /\ ends # {}
        THEN Group(s, i, i, AltEnd(s, SetMax(ends), LegalSuffixes))
        ELSE NoMatch

\* r'COMPANY:\s*([A-Z][a-zA-Z\s&,\.]+)' at i
LabelledName(s, i) ==
    LET from == RunEnd(s, i + Len(CharsCompanyLabel), Whitespace)
    IN  IF /\ MatchAtCI(s, i, CharsCompanyLabel)
           /\ from < Len(s) /\ s[from] \in Letters /\ s[from + 1] \in NameChars
        THEN Group(s, i, from, RunEnd(s, from + 1, NameChars))
        ELSE NoMatch

Headings == <<CharsFinancial, CharsAnnual, CharsIncome>>

\* r'([A-Z][A-Z\s&]+)(?:\s+FINANCIAL|\s+ANNUAL|\s+INCOME)' at i: the name
\* runs to the last white space before the last heading word it can reach
HeadingName(s, i) ==
    LET ends == {k \in (i + 2)..(RunEnd(s, i + 1, CapsChars) - 1) :
                    GapEnd(s, k) > 0 /\ AltEnd(s, GapEnd(s, k), Headings) > 0}
    IN  IF s[i] \in Letters /\ ends # {}
        THEN Group(s, i, i, SetMax(ends))
        ELSE NoMatch

\* the position after r'DECEMBER 31,?\s+' at i, or 0
December31End(s, i) ==
    LET after == i + Len(CharsDecember31)
    IN  IF ~MatchAtCI(s, i, CharsDecember31) THEN 0
        ELSE IF after <= Len(s) /\ s[after] = "," THEN GapEnd(s, after + 1)
        ELSE GapEnd(s, after)

\* r'(?:FOR THE YEAR ENDED|YEAR ENDED|DECEMBER 31,?\s+)(\d{4})' at i
YearEnded(s, i) ==
    IF MatchAtCI(s, i, CharsForTheYearEnded)
       /\ FourDigits(s, i + Len(CharsForTheYearEnded))
    THEN Group(s, i, i + Len(CharsForTheYearEnded), i + Len(CharsForTheYearEnded) + 4)
    ELSE IF MatchAtCI(s, i, CharsYearEnded) /\ FourDigits(s, i + Len(CharsYearEnded))
    THEN Group(s, i, i + Len(CharsYearEnded), i + Len(CharsYearEnded) + 4)
    ELSE IF FourDigits(s, December31End(s, i))
    THEN Group(s, i, December31End(s, i), December31End(s, i) + 4)
    ELSE NoMatch

\* lit, \s+ and (\d{4}) at i: r'ANNUAL REPORT\s+(\d{4})' and
\* r'FISCAL YEAR\s+(\d{4})'
LabelThenYear(s, i, lit) ==
    LET from == GapEnd(s, i + Len(lit))
    IN  IF MatchAtCI(s, i, lit) /\ FourDigits(s, from)
        THEN Group(s, i, from, from + 4) ELSE NoMatch

\* r'(\d{4})\s+ANNUAL REPORT' at i
YearThenLabel(s, i) ==
    IF FourDigits(s, i) /\ GapEnd(s, i + 4) > 0
       /\ MatchAtCI(s, GapEnd(s, i + 4), CharsAnnualReport)
    THEN Group(s, i, i, i + 4) ELSE NoMatch

\* the position after r'PROFIT\s+AND\s+LOSS' at i, or 0
ProfitAndLossEnd(s, i) ==
    LET and == GapEnd(s, i + Len(CharsProfit))
        loss == GapEnd(s, and + Len(CharsAnd))
    IN  IF /\ MatchAtCI(s, i, CharsProfit)
           /\ and > 0 /\ MatchAtCI(s, and, CharsAnd)
           /\ loss > 0 /\ MatchAtCI(s, loss, CharsLoss)
        THEN loss + Len(CharsLoss) ELSE 0

\* r'(INCOME STATEMENT|PROFIT\s+AND\s+LOSS|P&L)' at i
IncomeReport(s, i) ==
    IF MatchAtCI(s, i, CharsIncomeStatement)
    THEN Group(s, i, i, i + Len(CharsIncomeStatement))
    ELSE IF ProfitAndLossEnd(s, i) > 0 THEN Group(s, i, i, ProfitAndLossEnd(s, i))
    ELSE IF MatchAtCI(s, i, CharsPAndL) THEN Group(s, i, i, i + Len(CharsPAndL))
    ELSE NoMatch

\* a group of literal alternatives at i
OneOf(s, i, alts) ==
    IF AltEnd(s, i, alts) > 0 THEN Group(s, i, i, AltEnd(s, i, alts)) ELSE NoMatch

company_patterns == <<"company 1", "company 2", "company 3">>
year_patterns == <<"year 1", "year 2", "year 3", "year 4">>
report_patterns == <<"report 1", "report 2", "report 3", "report 4">>

\* the match of a pattern that starts at position i
MatchFrom(pattern, s, i) ==
    CASE pattern = "company 1" -> LegalName(s, i)
      [] pattern = "company 2" -> LabelledName(s, i)
      [] pattern = "company 3" -> HeadingName(s, i)
      [] pattern = "year 1" -> YearEnded(s, i)
      [] pattern = "year 2" -> LabelThenYear(s, i, CharsAnnualReport)
      [] pattern = "year 3" -> YearThenLabel(s, i)
      [] pattern = "year 4" -> LabelThenYear(s, i, CharsFiscalYear)
      [] pattern = "report 1" -> IncomeReport(s, i)
      [] pattern = "report 2" ->
            OneOf(s, i, <<CharsBalanceSheet, CharsFinancialPosition>>)
      [] pattern = "report 3" ->
            OneOf(s, i, <<CharsCashFlowStatement, CharsCashFlows>>)
      [] pattern = "report 4" ->
            OneOf(s, i, <<CharsAnnualReport, CharsQuarterlyReport, Chars10K, Chars10Q>>)

\* re.search(pattern, text, re.IGNORECASE): the match at the leftmost start
re_search(pattern, s) ==
    LET starts == {i \in 1..Len(s) : MatchFrom(pattern, s, i).found}
    IN  IF starts = {} THEN NoMatch ELSE MatchFrom(pattern, s, SetMin(starts))

\* the loop with the match that starts first in the text, whatever its
\* place in the list
SearchInOrder_LeftmostWins(patterns, s) ==
    LET found == {j \in DOMAIN patterns : re_search(patterns[j], s).found}
        first == CHOOSE j \in found : \A k \in found :
                     \/ re_search(patterns[j], s).start < re_search(patterns[k], s).start
                     \/ /\ re_search(patterns[j], s).start = re_search(patterns[k], s).start
                        /\ j <= k
    IN  IF found = {} THEN NoMatch ELSE re_search(patterns[first], s)

\* for pattern in patterns: match = re.search(...); if match: ...; break
RECURSIVE SearchInOrder(_, _)
SearchInOrder(patterns, s) ==
    IF patterns = <<>> THEN NoMatch
    ELSE LET match == re_search(Head(patterns), s)
         IN  IF match.found THEN match ELSE SearchInOrder(Tail(patterns), s)

\* the dict extract_company_info returns
extract_company_info(t) ==
    LET company == SearchInOrder(company_patterns, t)
        year == SearchInOrder(year_patterns, t)
        report == SearchInOrder(report_patterns, t)
    IN  [company_name |-> IF company.found THEN StrV(Strip(company.group)) ELSE None,
         year |-> IF year.found THEN StrV(year.group) ELSE None,
         report_type |-> IF report.found THEN StrV(report.group) ELSE None]

---------------------------------------------------------------------------
(* extract_financial_keywords (src/utils.py): re.findall of each pattern
   under re.IGNORECASE *)

CharsTotal == <<"t", "o", "t", "a", "l">>
CharsRevenue == <<"r", "e", "v", "e", "n", "u", "e">>
CharsNet == <<"n", "e", "t">>
CharsSales == <<"s", "a", "l", "e", "s">>
CharsLowerIncome == <<"i", "n", "c", "o", "m", "e">>
CharsFrom == <<"f", "r", "o", "m">>
CharsOperations == <<"o", "p", "e", "r", "a", "t", "i", "o", "n", "s">>
CharsGross == <<"g", "r", "o", "s", "s">>
CharsCost == <<"c", "o", "s", "t">>
CharsOf == <<"o", "f">>
CharsGoods == <<"g", "o", "o", "d", "s">>
CharsSold == <<"s", "o", "l", "d">>
CharsOperating == <<"o", "p", "e", "r", "a", "t", "i", "n", "g">>
CharsExpense == <<"e", "x", "p", "e", "n", "s", "e">>
CharsLowerProfit == <<"p", "r", "o", "f", "i", "t">>
CharsAssets == <<"a", "s", "s", "e", "t", "s">>
CharsLiabilities == <<"l", "i", "a", "b", "i", "l", "i", "t", "i", "e", "s">>
CharsShareholder == <<"s", "h", "a", "r", "e", "h", "o", "l", "d", "e", "r">>
CharsEquity == <<"e", "q", "u", "i", "t", "y">>

\* the position after the words, \s+ between them, at position i, or 0
RECURSIVE WordsEnd(_, _, _)
WordsEnd(s, i, words) ==
    IF ~MatchAtCI(s, i, Head(words)) THEN 0
    ELSE IF Len(words) = 1 THEN i + Len(Head(words))
    ELSE IF GapEnd(s, i + Len(Head(words))) = 0 THEN 0
    ELSE WordsEnd(s, GapEnd(s, i + Len(Head(words))), Tail(words))

\* the position after an optional s at position e: expenses?, shareholders?
PluralEnd(s, e, plural) ==
    IF plural /\ e >= 1 /\ e <= Len(s) /\ Lower(s[e]) = "s" THEN e + 1 ELSE e

\* the position after one optional character of the set at position i
OptionalEnd(s, i, set) == IF i <= Len(s) /\ s[i] \in set THEN i + 1 ELSE i

\* the position after r'\s*[:=]?\s*\$?[\d,]+' at position i, or 0
AmountEnd(s, i) ==
    LET sign == RunEnd(s, i, Whitespace)
        dollar == RunEnd(s, OptionalEnd(s, sign, {":", "="}), Whitespace)
        digits == OptionalEnd(s, dollar, {"$"})
    IN  IF digits <= Len(s) /\ s[digits] \in Digits \cup {","}
        THEN RunEnd(s, digits, Digits \cup {","}) ELSE 0

\* the position after the words, the optional s and the amount, or 0
PhraseEnd(s, i, words, plural) ==
    IF WordsEnd(s, i, words) = 0 THEN 0
    ELSE AmountEnd(s, PluralEnd(s, WordsEnd(s, i, words), plural))

\* a match of a keyword pattern: where it ends and what re.findall returns
\* for it, group 1 when the pattern has a group, the whole match otherwise
NoKeyword == [found |-> FALSE, start |-> 0, end |-> 0, entry |-> <<>>]
Keyword(s, i, end, entry) ==
    [found |-> TRUE, start |-> i, end |-> end, entry |-> entry]

\* a pattern without a group, r'operating\s+expenses?\s*[:=]?\s*\$?[\d,]+'
Whole(words, plural) ==
    [kind |-> "whole", lead |-> <<>>, words |-> words, plural |-> plural]
\* a pattern that opens with an optional group, r'(total\s+)?revenue...'
Optional(lead, plural, words) ==
    [kind |-> "optional", lead |-> lead, words |-> words, plural |-> plural]
\* r'cost\s+of\s+(goods\s+sold|sales)...'
CostOf == [kind |-> "cost", lead |-> <<>>, words |-> <<>>, plural |-> FALSE]

revenue_patterns ==
    <<Optional(CharsTotal, FALSE, <<CharsRevenue>>),
      Optional(CharsNet, FALSE, <<CharsSales>>),
      Whole(<<CharsLowerIncome, CharsFrom, CharsOperations>>, FALSE),
      Whole(<<CharsGross, CharsRevenue>>, FALSE)>>

expense_patterns ==
    <<CostOf,
      Whole(<<CharsOperating, CharsExpense>>, TRUE),
      Whole(<<CharsTotal, CharsExpense>>, TRUE)>>

profit_patterns ==
    <<Optional(CharsNet, FALSE, <<CharsLowerIncome>>),
      Whole(<<CharsGross, CharsLowerProfit>>, FALSE),
      Whole(<<CharsOperating, CharsLowerIncome>>, FALSE),
      Whole(<<CharsLowerProfit>>, FALSE)>>

balance_patterns ==
    <<Whole(<<CharsTotal, CharsAssets>>, FALSE),
      Whole(<<CharsTotal, CharsLiabilities>>, FALSE),
      Optional(CharsShareholder, TRUE, <<CharsEquity>>)>>

\* a pattern without a group at position i
WholeAt(p, s, i) ==
    LET end == PhraseEnd(s, i, p.words, p.plural)
    IN  IF end > 0 THEN Keyword(s, i, end, SubSeq(s, i, end - 1)) ELSE NoKeyword

\* the position after the optional group (lead s? \s+) at position i, or 0
LeadEnd(p, s, i) ==
    IF MatchAtCI(s, i, p.lead)
    THEN GapEnd(s, PluralEnd(s, i + Len(p.lead), p.plural)) ELSE 0

\* a pattern with an optional leading group at position i: with the group
\* when what follows it matches, else without it
OptionalAt(p, s, i) ==
    LET lead == LeadEnd(p, s, i)
    IN  IF lead > 0 /\ PhraseEnd(s, lead, p.words, FALSE) > 0
        THEN Keyword(s, i, PhraseEnd(s, lead, p.words, FALSE), SubSeq(s, i, lead - 1))
        ELSE IF PhraseEnd(s, i, p.words, FALSE) > 0
        THEN Keyword(s, i, PhraseEnd(s, i, p.words, FALSE), <<>>)
        ELSE NoKeyword

\* r'cost\s+of\s+(goods\s+sold|sales)\s*[:=]?\s*\$?[\d,]+' at position i
CostOfAt(s, i) ==
    LET of == WordsEnd(s, i, <<CharsCost, CharsOf>>)
        from == GapEnd(s, of)
        sold == WordsEnd(s, from, <<CharsGoods, CharsSold>>)
        sales == WordsEnd(s, from, <<CharsSales>>)
    IN  IF of = 0 \/ from = 0 THEN NoKeyword
        ELSE IF sold > 0 /\ AmountEnd(s, sold) > 0
        THEN Keyword(s, i, AmountEnd(s, sold), SubSeq(s, from, sold - 1))
        ELSE IF sales > 0 /\ AmountEnd(s, sales) > 0
        THEN Keyword(s, i, AmountEnd(s, sales), SubSeq(s, from, sales - 1))
        ELSE NoKeyword

KeywordAt(p, s, i) ==
    CASE p.kind = "whole" -> WholeAt(p, s, i)
      [] p.kind = "optional" -> OptionalAt(p, s, i)
      [] p.kind = "cost" -> CostOfAt(s, i)

\* re.findall(pattern, text, re.IGNORECASE) from position pos on: the
\* matches from left to right, none overlapping the one before
RECURSIVE re_findall(_, _, _)
re_findall(p, s, pos) ==
    LET starts == {i \in pos..Len(s) : KeywordAt(p, s, i).found}
        match == KeywordAt(p, s, SetMin(starts))
    IN  IF starts = {} THEN <<>>
        ELSE <<match.entry>> \o re_findall(p, s, match.end)

\* for pattern in patterns: keywords[...].extend(re.findall(...))
RECURSIVE ExtendAll(_, _)
ExtendAll(patterns, s) ==
    IF patterns = <<>> THEN <<>>
    ELSE re_findall(Head(patterns), s, 1) \o ExtendAll(Tail(patterns), s)

\* the position after r'\$[\d,]+(?:\.\d{2})?' at position i, or 0
NumberEnd(s, i) ==
    LET end == RunEnd(s, i + 1, Digits \cup {","})
    IN  IF s[i] # "$" \/ end = i + 1 THEN 0
        ELSE IF end + 2 <= Len(s) /\ s[end] = "."
                /\ s[end + 1] \in Digits /\ s[end + 2] \in Digits
        THEN end + 3 ELSE end

\* re.findall(number_pattern, text) from position pos on
RECURSIVE Numbers(_, _)
Numbers(s, pos) ==
    LET starts == {i \in pos..Len(s) : NumberEnd(s, i) > 0}
        end == NumberEnd(s, SetMin(starts))
    IN  IF starts = {} THEN <<>>
        ELSE <<SubSeq(s, SetMin(starts), end - 1)>> \o Numbers(s, end)

\* the dict extract_financial_keywords returns
extract_financial_keywords(t) ==
    [revenue_terms |-> ExtendAll(revenue_patterns, t),
     expense_terms |-> ExtendAll(expense_patterns, t),
     profit_terms |-> ExtendAll(profit_patterns, t),
     balance_sheet_terms |-> ExtendAll(balance_patterns, t),
     numbers |-> Numbers(t, 1)]

---------------------------------------------------------------------------
(* The texts explored and the processing of one text: clean_text, clean_text
   again on its result, and chunk_text_for_llm *)

\* the concatenation of a sequence of character sequences
RECURSIVE Flatten(_)
Flatten(pieces) ==
    IF pieces = <<>> THEN <<>> ELSE Head(pieces) \o Flatten(Tail(pieces))

TextsOf(pieces, n) == {Flatten(p) : p \in UNION {[1..k -> pieces] : k \in 0..n}}

CharsPage1 == CharsPageOpen \o <<"1">> \o CharsMarkerClose
CharsTable1 ==
    CharsTableOpen \o <<"1">> \o CharsTablePage \o <<"2">> \o CharsTableClose

\* texts of at most MaxCleanPieces pieces for clean_text
MaxCleanPieces == 4
CleanPieces ==
    {<<"1">>, <<",">>, <<" ">>, <<"\n">>, <<"$">>, <<"a">>, CharsPage1, CharsTable1}

\* digit groups separated by commas
CleanExamples ==
    {<<"1", ",", "2", ",", "3">>,
     <<"$", " ", "1", ",", "0", "0", "0", ",", "0", "0", "0">>}

\* texts of at most MaxChunkPieces pieces for chunk_text_for_llm, chunked at
\* every size up to MaxChunkSize
MaxChunkPieces == 5
MaxChunkSize == 6
ChunkPieces == {<<"a">>, <<".">>, <<" ">>, <<"\n">>}

DefaultChunkSize == 4000

InitText ==
    /\ PipelineIdle /\ current_year = 2026 /\ IngestIdle /\ BatchIdle
    /\ \/ text \in TextsOf(CleanPieces, MaxCleanPieces) \cup CleanExamples
          /\ max_chunk_size = DefaultChunkSize
       \/ text \in TextsOf(ChunkPieces, MaxChunkPieces)
          /\ max_chunk_size \in 1..MaxChunkSize
    /\ tpc = "start"
    /\ once = <<>> /\ twice = <<>> /\ chunks = <<>>
    /\ ScanIdle

CleanText ==
    /\ tpc = "start"
    /\ once' = clean_text(text)
    /\ tpc' = "cleaned"
    /\ UNCHANGED <<pipeVars, ingestVars, batchVars, text, max_chunk_size, twice, chunks,
                   scanVars>>

CleanAgain ==
    /\ tpc = "cleaned"
    /\ twice' = clean_text(once)
    /\ tpc' = "recleaned"
    /\ UNCHANGED <<pipeVars, ingestVars, batchVars, text, max_chunk_size, once, chunks,
                   scanVars>>

ChunkText ==
    /\ tpc = "start"
    /\ chunks' = chunk_text_for_llm(text, max_chunk_size)
    /\ tpc' = "chunked"
    /\ UNCHANGED <<pipeVars, ingestVars, batchVars, text, max_chunk_size, once, twice,
                   scanVars>>

NextText == CleanText \/ CleanAgain \/ ChunkText

SpecText == InitText /\ [][NextText]_vars

---------------------------------------------------------------------------
(* The scans of one text: detect_table_structure, extract_company_info and
   extract_financial_keywords, as the __main__ block of src/utils.py applies
   them to its sample *)

\* sample_text of the __main__ block
SampleText ==
    <<"\n", " ", " ", " ", " ", "A", "C", "M", "E", " ", "C", "o", "r",
      "p", "o", "r", "a", "t", "i", "o", "n", "\n", " ", " ", " ", " ",
      "A", "n", "n", "u", "a", "l", " ", "R", "e", "p", "o", "r", "t", " ",
      "2", "0", "2", "3", "\n", " ", " ", " ", " ", "\n", " ", " ", " ",
      " ", "R", "e", "v", "e", "n", "u", "e", " ", " ", " ", " ", " ", " ",
      " ", " ", " ", " ", " ", " ", " ", " ", " ", " ", " ", "$", "1", ",",
      "0", "0", "0", ",", "0", "0", "0", "\n", " ", " ", " ", " ", "C",
      "o", "s", "t", " ", "o", "f", " ", "G", "o", "o", "d", "s", " ", "S",
      "o", "l", "d", " ", " ", " ", " ", " ", " ", " ", "$", "6", "0", "0",
      ",", "0", "0", "0", "\n", " ", " ", " ", " ", "G", "r", "o", "s",
      "s", " ", "P", "r", "o", "f", "i", "t", " ", " ", " ", " ", " ", " ",
      " ", " ", " ", " ", " ", " ", " ", "$", "4", "0", "0", ",", "0", "0",
      "0", "\n", " ", " ", " ", " ", "O", "p", "e", "r", "a", "t", "i",
      "n", "g", " ", "E", "x", "p", "e", "n", "s", "e", "s", " ", " ", " ",
      " ", " ", " ", " ", "$", "2", "0", "0", ",", "0", "0", "0", "\n",
      " ", " ", " ", " ", "N", "e", "t", " ", "I", "n", "c", "o", "m", "e",
      " ", " ", " ", " ", " ", " ", " ", " ", " ", " ", " ", " ", " ", " ",
      " ", "$", "2", "0", "0", ",", "0", "0", "0", "\n", " ", " ", " ",
      " ">>

\* texts of at most MaxTablePieces pieces for detect_table_structure
MaxTablePieces == 4
TablePieces == {<<"a">>, <<" ">>, <<" ", " ", " ">>, <<"\t">>, <<"\n">>}

\* two runs of table-like lines, each with a line that yields no row, the
\* second open at the end of the text
TwoTables ==
    <<"a", "\t", "a", "\n", "\t", "\n", "a", " ", " ", " ", "a", " ", "a", "\n",
      "\n", " ", " ", " ", "\n", "a", "\t", "a">>

TableExamples == {SampleText, TwoTables}

\* texts of at most MaxInfoPieces pieces for extract_company_info
MaxInfoPieces == 3
InfoPieces ==
    {<<"A", "b">>, <<" ">>, CharsInc, CharsCompanyLabel, CharsAnnualReport,
     Chars2023, CharsPAndL, Chars10K}

\* a year before and a year after ANNUAL REPORT
TwoYears ==
    <<"2", "0", "2", "3", " ", "A", "N", "N", "U", "A", "L", " ", "R", "E",
      "P", "O", "R", "T", " ", "1", "9", "9", "9">>

\* a text in which, for each extraction, a later pattern of the list matches
\* before the first one that matches
LaterPatternsFirst ==
    <<"B", "A", "L", "A", "N", "C", "E", " ", "S", "H", "E", "E", "T", " ",
      "2", "0", "2", "3", " ", "A", "N", "N", "U", "A", "L", " ", "R", "E",
      "P", "O", "R", "T", " ", "1", "9", "9", "9", " ", "C", "O", "M", "P",
      "A", "N", "Y", ":", " ", "A", "b", " ", "I", "n", "c", ",", " ", "x",
      " ", "I", "N", "C", "O", "M", "E", " ", "S", "T", "A", "T", "E", "M",
      "E", "N", "T">>

InfoExamples == {TwoYears, LaterPatternsFirst}

\* texts of at most MaxKeywordPieces pieces for extract_financial_keywords
MaxKeywordPieces == 3
KeywordPieces ==
    {CharsTotal \o <<" ">>, CharsRevenue, CharsOperating \o <<" ">> \o CharsExpense,
     CharsLowerProfit, <<":", " ">>, <<"$">>, <<"1">>, <<" ">>}

\* a keyword phrase with its amount
TotalRevenue ==
    <<"t", "o", "t", "a", "l", " ", "r", "e", "v", "e", "n", "u", "e", ":",
      " ", "$", "1", "0", "0", "0", "0", "0", "0">>

\* one text in hand, nothing applied to it yet
ScanInit(texts) ==
    /\ PipelineIdle /\ current_year = 2026 /\ IngestIdle /\ BatchIdle
    /\ text \in texts
    /\ max_chunk_size = DefaultChunkSize
    /\ tpc = "start"
    /\ once = <<>> /\ twice = <<>> /\ chunks = <<>>
    /\ ScanIdle

InitTables == ScanInit(TextsOf(TablePieces, MaxTablePieces) \cup TableExamples)

InitInfo ==
    ScanInit(TextsOf(InfoPieces, MaxInfoPieces) \cup InfoExamples \cup {SampleText})

DetectTables ==
    /\ tpc = "start"
    /\ tables' = detect_table_structure(text)
    /\ tpc' = "tables"
    /\ UNCHANGED <<pipeVars, ingestVars, batchVars, text, max_chunk_size, once,
                   twice, chunks, company_info, keywords>>

ExtractCompanyInfo ==
    /\ tpc = "start"
    /\ company_info' = extract_company_info(text)
    /\ tpc' = "info"
    /\ UNCHANGED <<pipeVars, ingestVars, batchVars, text, max_chunk_size, once,
                   twice, chunks, tables, keywords>>

SpecTables == InitTables /\ [][DetectTables]_vars

SpecInfo == InitInfo /\ [][ExtractCompanyInfo]_vars

InitKeywords ==
    ScanInit(TextsOf(KeywordPieces, MaxKeywordPieces) \cup {TotalRevenue, SampleText})

ExtractKeywords ==
    /\ tpc = "start"
    /\ keywords' = extract_financial_keywords(text)
    /\ tpc' = "keywords"
    /\ UNCHANGED <<pipeVars, ingestVars, batchVars, text, max_chunk_size, once,
                   twice, chunks, tables, company_info>>

SpecKeywords == InitKeywords /\ [][ExtractKeywords]_vars

---------------------------------------------------------------------------
(* Properties *)

Validated == pc \in {"validated", "summarized"}

Rules(errors) == {errors[i].rule : i \in DOMAIN errors}

HasRule(rule) == rule \in Rules(outcome.errors)

\* the amount of a field of the cleaned map, when it is an int
HasAmount(f) == f \in DOMAIN cleaned.data /\ IsInt(cleaned.data[f])
Amount(f) == cleaned.data[f].v

\* the keys of the cleaned map whose value is not None
PresentKeys == {k \in DOMAIN cleaned.data : ~IsNone(cleaned.data[k])}

\* the amounts of a map as the rules read them, whatever the field
\* validation said of them
AmountsOf(variant, data) ==
    [f \in Range(FieldOrder(variant)) |->
        IF f \in DOMAIN data /\ IsInt(data[f]) THEN data[f] ELSE None]

\* every rule a map breaks, each evaluated on its own
BrokenRules(variant, data, now_year) ==
    LET order == FieldOrder(variant)
        amounts == AmountsOf(variant, data)
    IN  Range(FieldErrors(order, data, now_year))
        \cup Range(ExtraErrors(DOMAIN data \ Range(order)))
        \cup Range(validate_financial_logic(amounts))
        \cup (IF variant = "saas"
                 /\ Present(amounts, {"annual_recurring_revenue", "monthly_recurring_revenue"})
                 /\ OutsideTolerance(amounts["annual_recurring_revenue"].v,
                                     12 * amounts["monthly_recurring_revenue"].v,
                                     12 * amounts["monthly_recurring_revenue"].v,
                                     ArrTolerancePercent)
              THEN {Violation("arr_mismatch", "")} ELSE {})

\* C1: validate never short-circuits: the rejection lists one violation for
\* every rule the coerced map breaks, field rules and cross-field rules alike.
C1_EveryBrokenRuleReported ==
    Validated =>
        Range(outcome.errors) = BrokenRules(Variant(industry), cleaned.data, current_year)

\* C2: with revenue 1,000,000 and cogs 600,000 and no other amount, a record
\* with well-formed name and year passes for every gross_profit in
\* [396000, 404000] and is rejected with a gross-profit violation for every
\* gross_profit outside it.
C2_GrossProfitBand ==
    (/\ Validated
     /\ PresentKeys = {"company_name", "year", "revenue", "cogs", "gross_profit"}
     /\ cleaned.data["company_name"] = StrV(AcmeName)
     /\ cleaned.data["year"] = StrV(Chars2023)
     /\ HasAmount("revenue") /\ Amount("revenue") = 1000000
     /\ HasAmount("cogs") /\ Amount("cogs") = 600000
     /\ HasAmount("gross_profit"))
    => IF Amount("gross_profit") \in 396000..404000
       THEN outcome.valid /\ ~HasRule("gross_profit_mismatch")
       ELSE ~outcome.valid /\ HasRule("gross_profit_mismatch")

C2_Witness ==
    /\ Validated
    /\ PresentKeys = {"company_name", "year", "revenue", "cogs", "gross_profit"}
    /\ cleaned.data["revenue"] = IntV(1000000)
    /\ cleaned.data["cogs"] = IntV(600000)
    /\ cleaned.data["gross_profit"] = IntV(404000)
    /\ outcome.valid

\* C3: completeness_score is the number of the 9 core monetary fields that
\* are present, divided by 9.
C3_CompletenessOverNine ==
    pc = "summarized" =>
        summary.completeness_score.n * 9
            = Cardinality({f \in MonetaryFields : ~IsNone(outcome.record[f])})
                * summary.completeness_score.d

\* C4: the ACME map with gross_profit 100000 is rejected, and its violations
\* hold exactly one gross-profit mismatch and the operating-income mismatch.
C4_RejectionExample ==
    (Validated /\ cleaned.data = AcmeBadData) =>
        /\ ~outcome.valid
        /\ Cardinality({i \in DOMAIN outcome.errors :
                            outcome.errors[i].rule = "gross_profit_mismatch"}) = 1
        /\ HasRule("operating_income_mismatch")

C4_Witness ==
    /\ Validated /\ cleaned.data = AcmeBadData /\ industry = General
    /\ HasRule("gross_profit_mismatch") /\ HasRule("operating_income_mismatch")

\* The raw string of the monetary field under coercion, and what became of it
CoerceField == CHOOSE f \in CoerceFields : f \in DOMAIN raw
RawStr == raw[CoerceField].s
Coerced == cleaned.data[CoerceField]
Returned == pc \in {"cleaned", "validated", "summarized"}

\* C5: clean_financial_data never raises: whatever string a monetary field
\* holds, the call returns and the field is an integer or absent.
C5_CoerceNeverThrows ==
    /\ pc # "raised"
    /\ Returned => Coerced.t \in {"int", "none"}

\* The reading of a stripped text as a plain decimal: an optional minus
\* sign, digits, at most one point; its value truncated toward zero
Unsigned(t) == IF t # <<>> /\ t[1] = "-" THEN Tail(t) ELSE t
IsDecimal(t) ==
    /\ \A i \in 1..Len(Unsigned(t)) : Unsigned(t)[i] \in Digits \cup {"."}
    /\ Cardinality({i \in 1..Len(Unsigned(t)) : Unsigned(t)[i] = "."}) <= 1
    /\ \E i \in 1..Len(Unsigned(t)) : Unsigned(t)[i] \in Digits
IntegerPart(t) ==
    LET u == Unsigned(t)
        dots == {i \in 1..Len(u) : u[i] = "."}
    IN  IF dots = {} THEN u ELSE SubSeq(u, 1, SetMin(dots) - 1)
Truncated(t) ==
    IF t[1] = "-" THEN -DecVal(IntegerPart(t)) ELSE DecVal(IntegerPart(t))
BothParens(str) == "(" \in Range(str) /\ ")" \in Range(str)

\* C6: a monetary string is stripped of $ , ( ) and read as a number
\* truncated toward zero, negated exactly when the string holds both ( and );
\* "$1,000,000" gives 1000000, "(500,000)" gives -500000, "abc" gives absent.
C6_CoercionResult ==
    Returned =>
        LET t == RemoveChars(RawStr, {"$", ",", "(", ")"})
        IN  /\ IsDecimal(t) =>
                   Coerced = IntV(IF BothParens(RawStr) THEN -Truncated(t)
                                  ELSE Truncated(t))
            /\ (\A i \in 1..Len(t) : t[i] \notin Digits) => Coerced = None
            /\ RawStr = <<"$", "1", ",", "0", "0", "0", ",", "0", "0", "0">>
                   => Coerced = IntV(1000000)
            /\ RawStr = <<"(", "5", "0", "0", ",", "0", "0", "0", ")">>
                   => Coerced = IntV(-500000)
            /\ RawStr = <<"a", "b", "c">> => Coerced = None

C6_Witness ==
    /\ Returned
    /\ RawStr = <<"(", "5", "0", "0", ",", "0", "0", "0", ")">>
    /\ Coerced = IntV(-500000)

\* C7: in ingest_document the map the LLM returned always passes through
\* clean_financial_data before validate_financial_data receives it.
C7_ValidateReceivesCoerced ==
    \A r \in DOMAIN rpc :
        rpc[r] \in {"query", "commit", "done"} /\ rarg[r] # <<>> =>
            rarg[r] = clean_financial_data(rdata[r]).data

\* the violations reported on the year field
YearViolations == {i \in DOMAIN outcome.errors : outcome.errors[i].field = "year"}
YearIs(chars) == "year" \in DOMAIN cleaned.data /\ cleaned.data["year"] = StrV(chars)
FourDigitYear ==
    /\ "year" \in DOMAIN cleaned.data /\ IsStr(cleaned.data["year"])
    /\ Len(cleaned.data["year"].s) = 4 /\ AllDigits(cleaned.data["year"].s)

\* C8: a 4-digit year Y is accepted iff 1900 <= Y <= current_year + 1;
\* "1899" and str(current_year + 2) are rejected, "1900" and
\* str(current_year + 1) are accepted.
C8_YearBounds ==
    Validated =>
        /\ FourDigitYear =>
               (YearViolations = {}
                   <=> (1900 <= DecVal(cleaned.data["year"].s)
                        /\ DecVal(cleaned.data["year"].s) <= current_year + 1))
        /\ YearIs(Chars1899) => ~outcome.valid
        /\ YearIs(IntToChars(current_year + 2)) => ~outcome.valid
        /\ (cleaned.data = [AcmeData EXCEPT !["year"] = StrV(<<"1", "9", "0", "0">>)])
               => outcome.valid
        /\ (cleaned.data = [AcmeData EXCEPT !["year"] = StrV(IntToChars(current_year + 1))])
               => outcome.valid

C8_Witness ==
    /\ Validated
    /\ YearIs(IntToChars(current_year + 1))
    /\ outcome.valid

NonNegativeFields == {"revenue", "cogs", "operating_expenses", "total_assets",
                      "total_liabilities"}
SignedFields == {"gross_profit", "operating_income", "net_income", "equity"}

\* revenue 100000, cogs 150000, gross_profit -50000 and nothing else
LossExample ==
    /\ PresentKeys = {"company_name", "year", "revenue", "cogs", "gross_profit"}
    /\ cleaned.data["company_name"] = StrV(AcmeName)
    /\ cleaned.data["year"] = StrV(Chars2023)
    /\ cleaned.data["revenue"] = IntV(100000)
    /\ cleaned.data["cogs"] = IntV(150000)
    /\ cleaned.data["gross_profit"] = IntV(-50000)

\* C9: in a Valid record revenue, cogs, operating_expenses, total_assets and
\* total_liabilities are absent or >= 0; no violation is ever reported on
\* gross_profit, operating_income, net_income or equity for being negative,
\* and revenue 100000, cogs 150000, gross_profit -50000 is Valid.
C9_SignInvariant ==
    Validated =>
        /\ outcome.valid =>
               \A f \in NonNegativeFields :
                   IsNone(outcome.record[f]) \/ outcome.record[f].v >= 0
        /\ \A i \in DOMAIN outcome.errors :
               outcome.errors[i].field \in SignedFields =>
                   ~(HasAmount(outcome.errors[i].field)
                     /\ Amount(outcome.errors[i].field) < 0)
        /\ LossExample => outcome.valid

C9_Witness ==
    /\ Validated /\ LossExample
    /\ outcome.valid /\ outcome.record["gross_profit"].v < 0

\* C10: when operating_income is present and > 0 and net_income is present
\* and > 1.5 x operating_income the outcome is Rejected; when operating_income
\* is absent or <= 0 no plausibility violation is reported.
C10_PlausibilityBlocksValid ==
    Validated =>
        /\ (/\ HasAmount("operating_income") /\ HasAmount("net_income")
            /\ Amount("operating_income") > 0
            /\ 2 * Amount("net_income") > 3 * Amount("operating_income"))
               => ~outcome.valid
        /\ (~HasAmount("operating_income") \/ Amount("operating_income") <= 0)
               => ~HasRule("net_income_unusually_high")

C10_Witness ==
    /\ Validated
    /\ HasAmount("operating_income") /\ Amount("operating_income") = 200000
    /\ HasAmount("net_income") /\ Amount("net_income") = 300001
    /\ outcome.errors = <<Violation("net_income_unusually_high", "")>>

---------------------------------------------------------------------------
(* The schema a tag selects *)

ValidateReturned == pc \in {"validated", "summarized", "failed"}

\* the variant the documentation gives a tag, compared in lower case
SelectedVariant(tag) ==
    IF IsStr(tag) /\ LowerStr(tag.s) \in {CharsSaas, CharsSoftware} THEN "saas"
    ELSE IF IsStr(tag) /\ LowerStr(tag.s) \in {CharsRetail, CharsEcommerce} THEN "retail"
    ELSE "general"

\* C11: selecting the schema is a total lookup with a default: the tags saas
\* and software validate under the SaaS variant, retail and ecommerce under
\* the Retail variant, and every other tag, an absent (None) tag included,
\* under the base schema, without raising.
C11_SelectSchemaTotal ==
    ValidateReturned =>
        /\ pc # "failed"
        /\ outcome = ValidateModel(SelectedVariant(industry), cleaned.data, current_year)

\* |ARR - 12 * MRR| > max(1000, 5% of 12 * MRR), each bound on its own
ArrOutsideBand(arr, mrr) ==
    /\ Abs(arr - 12 * mrr) > 1000
    /\ 20 * Abs(arr - 12 * mrr) > 12 * mrr

\* C12: under the SaaS variant, when annual_recurring_revenue and
\* monthly_recurring_revenue are both present the record is rejected with an
\* ARR violation iff |ARR - 12 x MRR| > max(1000, 5% of 12 x MRR); when
\* either is absent no ARR violation is reported.
C12_ArrRule ==
    Validated /\ SelectedVariant(industry) = "saas" =>
        IF HasAmount("annual_recurring_revenue") /\ HasAmount("monthly_recurring_revenue")
        THEN HasRule("arr_mismatch")
             <=> ArrOutsideBand(Amount("annual_recurring_revenue"),
                                Amount("monthly_recurring_revenue"))
        ELSE ~HasRule("arr_mismatch")

Variants == {"general", "saas", "retail"}

BaseFieldsOnly == DOMAIN cleaned.data \subseteq Range(BaseOrder)

\* C13: the variants share the base rules: a field map that holds only base
\* fields gets the same verdict and the same set of violations under the
\* general, the SaaS and the Retail variant.
C13_VariantsShareBaseRules ==
    Validated /\ BaseFieldsOnly =>
        \A v \in Variants :
            /\ ValidateModel(v, cleaned.data, current_year).valid = outcome.valid
            /\ Range(ValidateModel(v, cleaned.data, current_year).errors)
                   = Range(outcome.errors)

\* a base-only map rejected under the Retail variant for a broken identity
C13_Witness ==
    /\ Validated /\ industry = StrV(CharsRetail) /\ cleaned.data = AcmeBadData
    /\ ~outcome.valid /\ HasRule("gross_profit_mismatch")

\* C19: the outcome of validate depends on the coerced map, the variant and
\* a supplied current-year reference only: validating the same map under the
\* same tag gives the same outcome whatever the year of the wall clock.
C19_ValidateIgnoresClock ==
    Validated =>
        \A ny \in NowYears :
            validate_financial_data(cleaned.data, industry, ny) = outcome

\* C18: a validated record is immutable: once validate has returned Valid,
\* no operation on the record, an assignment to one of its fields included,
\* changes the value of any of its fields.
C18_ValidatedRecordImmutable ==
    [][(pc \in {"validated", "summarized", "assigned", "assign_raised"} /\ outcome.valid)
         => (outcome.record = outcome'.record)]_vars

\* |actual - expected| > max(1000, 1% of expected), with expected signed
OutsideSignedBand(actual, expected) ==
    /\ Abs(actual - expected) > 1000
    /\ 100 * Abs(actual - expected) > expected

FieldsValidate ==
    /\ FieldErrors(FieldOrder(Variant(industry)), cleaned.data, current_year) = <<>>
    /\ DOMAIN cleaned.data \subseteq Range(FieldOrder(Variant(industry)))

\* C20: for the operating-income identity (expected = gross_profit -
\* operating_expenses) and the equity identity (expected = total_assets -
\* total_liabilities), a violation is reported exactly when
\* |actual - expected| > max(1000, 1% of the expected value), also when the
\* expected value is negative. Stated for maps whose fields all validate.
C20_SignedTolerance ==
    Validated /\ FieldsValidate =>
        /\ HasRule("operating_income_mismatch")
             <=> /\ \A f \in {"gross_profit", "operating_expenses", "operating_income"} :
                        HasAmount(f)
                 /\ OutsideSignedBand(Amount("operating_income"),
                                      Amount("gross_profit") - Amount("operating_expenses"))
        /\ HasRule("equity_mismatch")
             <=> /\ \A f \in {"total_assets", "total_liabilities", "equity"} :
                        HasAmount(f)
                 /\ OutsideSignedBand(Amount("equity"),
                                      Amount("total_assets") - Amount("total_liabilities"))

---------------------------------------------------------------------------
(* Batches *)

\* the name of an item as a record keeps it, in lower case, with its year
ItemKey(d) == <<LowerStr(NormalizeSpace(Strip(d["company_name"].s))), d["year"].s>>

HasDuplicate == \E i, j \in 1..Len(batch) : i < j /\ ItemKey(batch[i]) = ItemKey(batch[j])

ItemsValid ==
    \A i \in 1..Len(batch) : ValidateModel("general", batch[i], current_year).valid

\* C14 as stated: a batch is rejected iff two of its records have the same
\* (lower-cased normalized company_name, year) pair.
C14_RejectedIffDuplicate ==
    bpc = "done" => (~boutcome.valid <=> HasDuplicate)

\* C14 as amended: a batch of at least one record, each valid on its own, is
\* rejected iff two of its records have the same (lower-cased normalized
\* company_name, year) pair; names that differ in letter case only, with the
\* same year, are duplicates, and the same name with two years is not.
C14_NonEmptyRejectedIffDuplicate ==
    bpc = "done" /\ batch # <<>> /\ ItemsValid =>
        /\ ~boutcome.valid <=> HasDuplicate
        /\ ~boutcome.valid => Rules(boutcome.errors) = {"duplicate_record"}

\* a batch rejected for two names that differ in letter case only
C14_Witness ==
    /\ bpc = "done" /\ ~boutcome.valid /\ Len(batch) = 2
    /\ batch[1]["company_name"] = StrV(<<"A", "b">>)
    /\ batch[2]["company_name"] = StrV(<<"a", "B">>)
    /\ batch[1]["year"] = batch[2]["year"]

---------------------------------------------------------------------------
(* Texts *)

\* C15: clean is idempotent: clean(clean(x)) = clean(x) for every text x,
\* texts with table-boundary markers and with digit groups separated by
\* commas included.
C15_CleanIdempotent ==
    tpc = "recleaned" => twice = once

\* the sentences of a text: its paragraphs split at ". "
SentencesOf(t) ==
    UNION {Range(Split(p, CharsSentenceBreak)) : p \in Range(Split(t, CharsParagraphBreak))}

\* chunk c is one sentence of the text, longer than max on its own, with or
\* without the terminator put back after it
OneLongSentence(c, t, max) ==
    \E sentence \in SentencesOf(t) :
        /\ Len(sentence) > max
        /\ c \in {Strip(sentence), Strip(sentence \o <<".">>)}

\* C16: for every text and every maxSize N >= 1, each chunk of chunk(text, N)
\* has length <= N unless the chunk is one single sentence whose own length
\* exceeds N.
C16_ChunkSizeBound ==
    tpc = "chunked" =>
        \A k \in DOMAIN chunks :
            \/ Len(chunks[k]) <= max_chunk_size
            \/ OneLongSentence(chunks[k], text, max_chunk_size)

\* C17: for every text and N >= 1 the chunks of chunk(text, N), joined in
\* order, reproduce the content of the text: every paragraph and sentence
\* once and in order, and no character but white space that the text does
\* not hold at that place.
C17_ChunkRoundTrip ==
    tpc = "chunked" =>
        RemoveChars(Flatten(chunks), Whitespace) = RemoveChars(text, Whitespace)

---------------------------------------------------------------------------
(* The accounting identities and their operands *)

IdentityOperands ==
    [gross_profit_mismatch |-> {"revenue", "cogs", "gross_profit"},
     operating_income_mismatch |->
         {"gross_profit", "operating_expenses", "operating_income"},
     equity_mismatch |-> {"total_assets", "total_liabilities", "equity"}]

\* a field the cleaned map lacks or holds as None
Absent(f) == f \notin DOMAIN cleaned.data \/ IsNone(cleaned.data[f])

\* C21: when one of the three operands of an accounting identity is absent,
\* validate reports no violation of that identity, whatever the two others.
C21_IdentityNeedsOperands ==
    Validated =>
        \A rule \in DOMAIN IdentityOperands :
            (\E f \in IdentityOperands[rule] : Absent(f)) => ~HasRule(rule)

\* revenue 100,000 and cogs 600,000 with no gross_profit, and equity
\* -300,000 with total_liabilities alone: accepted
C21_Witness ==
    /\ Validated /\ outcome.valid
    /\ Get(cleaned.data, "revenue") = IntV(100000)
    /\ Get(cleaned.data, "cogs") = IntV(600000)
    /\ Absent("gross_profit")
    /\ Absent("total_assets")
    /\ Get(cleaned.data, "total_liabilities") = IntV(800000)
    /\ Get(cleaned.data, "equity") = IntV(-300000)

---------------------------------------------------------------------------
(* The margins of the summary *)

RECURSIVE Gcd(_, _)
Gcd(a, b) == IF b = 0 THEN a ELSE Gcd(b, a % b)

\* a fraction in lowest terms
Lowest(n, d) == [n |-> n \div Gcd(Abs(n), d), d |-> d \div Gcd(Abs(n), d)]

\* the float m is the quotient numerator * 100 / revenue
IsMargin(m, numerator, revenue) ==
    m.d > 0 /\ Lowest(m.n, m.d) = Lowest(numerator * 100, revenue)

MarginsOfRecord(margins, rec) ==
    /\ DOMAIN margins =
           {"gross_margin" : x \in {rec["gross_profit"]} \ {None}}
           \cup {"operating_margin" : x \in {rec["operating_income"]} \ {None}}
           \cup {"net_margin" : x \in {rec["net_income"]} \ {None}}
    /\ "gross_margin" \in DOMAIN margins =>
           IsMargin(margins["gross_margin"], rec["gross_profit"].v, rec["revenue"].v)
    /\ "operating_margin" \in DOMAIN margins =>
           IsMargin(margins["operating_margin"], rec["operating_income"].v,
                    rec["revenue"].v)
    /\ "net_margin" \in DOMAIN margins =>
           IsMargin(margins["net_margin"], rec["net_income"].v, rec["revenue"].v)

\* C22: the margins are empty when revenue is absent or <= 0; otherwise they
\* hold gross_margin, operating_margin, net_margin exactly for the numerators
\* that are present, each numerator * 100 / revenue: 40, 20 and 15 for the
\* ACME record.
C22_Margins ==
    pc = "summarized" =>
        /\ IF IsNone(outcome.record["revenue"]) THEN DOMAIN summary.margins = {}
           ELSE IF outcome.record["revenue"].v <= 0 THEN DOMAIN summary.margins = {}
           ELSE MarginsOfRecord(summary.margins, outcome.record)
        /\ cleaned.data = AcmeData =>
               /\ DOMAIN summary.margins
                      = {"gross_margin", "operating_margin", "net_margin"}
               /\ Lowest(summary.margins["gross_margin"].n,
                         summary.margins["gross_margin"].d) = Ratio(40, 1)
               /\ Lowest(summary.margins["operating_margin"].n,
                         summary.margins["operating_margin"].d) = Ratio(20, 1)
               /\ Lowest(summary.margins["net_margin"].n,
                         summary.margins["net_margin"].d) = Ratio(15, 1)

\* revenue 0 with a gross loss: a valid record, summarized without margins
C22_Witness ==
    /\ pc = "summarized"
    /\ outcome.record["revenue"] = IntV(0)
    /\ outcome.record["gross_profit"] = IntV(-50000)
    /\ DOMAIN summary.margins = {}

---------------------------------------------------------------------------
(* The commas clean_text leaves *)

\* s holds a comma directly between two digits at position i
BetweenDigits(s, i) ==
    /\ 1 < i /\ i < Len(s) /\ s[i] = ","
    /\ s[i - 1] \in Digits /\ s[i + 1] \in Digits

\* the commas of s that are not directly between two digits
OtherCommas(s) ==
    Cardinality({i \in DOMAIN s : s[i] = "," /\ ~BetweenDigits(s, i)})

\* the text as it reaches the removal of commas
BeforeCommas(t) == ReSub("dollar", RemoveMarkers(NormalizeSpace(t)), 1)

\* C23: the cleaned text holds no comma directly between two digits (the
\* removal is applied until no match remains), and the commas that are not
\* between two digits are all kept.
C23_NoDigitCommaDigit ==
    tpc = "cleaned" =>
        /\ \A i \in DOMAIN once : ~BetweenDigits(once, i)
        /\ Cardinality({i \in DOMAIN once : once[i] = ","})
               = OtherCommas(BeforeCommas(text))

---------------------------------------------------------------------------
(* The tables detect_table_structure returns *)

Lines == Split(text, CharsNewline)

\* the line holds a tab or three white-space characters in a row
LooksTabular(line) ==
    \/ \E i \in DOMAIN line : line[i] = "\t"
    \/ \E i \in 1..(Len(line) - 2) :
           {line[i], line[i + 1], line[i + 2]} \subseteq Whitespace

\* the line holds something to put in a cell
YieldsRow(line) == \E i \in DOMAIN line : line[i] \notin Whitespace

\* the first lines of the maximal runs of table-like lines
RunStarts ==
    {a \in DOMAIN Lines :
        LooksTabular(Lines[a]) /\ (a = 1 \/ ~LooksTabular(Lines[a - 1]))}

\* the lines of the run that starts at line a, and those that yield a row
RunOf(a) == {b \in a..Len(Lines) : \A j \in a..b : LooksTabular(Lines[j])}
RowLines(a) == {b \in RunOf(a) : YieldsRow(Lines[b])}

\* the runs that yield at least one row
TableRuns == {a \in RunStarts : RowLines(a) # {}}

\* the k-th smallest member of a set of numbers
Kth(S, k) == CHOOSE a \in S : Cardinality({b \in S : b < a}) = k - 1

\* the table is the candidate of the run that starts at line a
CandidateOf(table, a) ==
    /\ table.row_count = Len(table.rows)
    /\ table.row_count = Cardinality(RowLines(a))
    /\ table.row_count >= 1
    /\ \A j \in DOMAIN table.rows :
           /\ table.rows[j] # <<>>
           /\ Len(table.rows[j]) <= table.column_count
           /\ \A c \in DOMAIN table.rows[j] :
                  table.rows[j][c] # <<>> /\ Strip(table.rows[j][c]) = table.rows[j][c]
           /\ RemoveChars(Flatten(table.rows[j]), Whitespace)
                  = RemoveChars(Lines[Kth(RowLines(a), j)], Whitespace)
    /\ \E j \in DOMAIN table.rows : Len(table.rows[j]) = table.column_count

\* C24: the candidates are, in order, the maximal runs of table-like lines
\* that yield at least one row; each has row_count = number of rows >= 1,
\* column_count = the longest row, no empty row and only non-empty trimmed
\* cells; a run still open at the end of the text is emitted.
C24_TablesAreRuns ==
    tpc = "tables" =>
        /\ Len(tables) = Cardinality(TableRuns)
        /\ \A k \in DOMAIN tables : CandidateOf(tables[k], Kth(TableRuns, k))

\* two candidates, the second from a run that reaches the last line and
\* begins with a line that yields no row
C24_Witness ==
    /\ tpc = "tables" /\ text = TwoTables
    /\ Len(tables) = 2
    /\ tables[1].row_count = 2 /\ tables[1].column_count = 2
    /\ tables[2].rows = << <<(<<"a">>), (<<"a">>)>> >>
    /\ LooksTabular(Lines[Len(Lines)])

---------------------------------------------------------------------------
(* The pattern that decides each extraction of extract_company_info *)

\* the patterns of a list that match somewhere in the text
Matching(patterns) ==
    {j \in DOMAIN patterns :
        \E i \in 1..Len(text) : MatchFrom(patterns[j], text, i).found}

\* group 1 of the first match of a pattern in the text
FirstMatchOf(pattern) ==
    MatchFrom(pattern, text,
              SetMin({i \in 1..Len(text) : MatchFrom(pattern, text, i).found})).group

\* the value is what the lowest-indexed matching pattern of the list
\* captures at its first match, and None when no pattern matches
DecidedBy(value, patterns) ==
    LET matching == Matching(patterns)
        group == FirstMatchOf(patterns[SetMin(matching)])
    IN  IF matching = {} THEN value = None
        ELSE value = StrV(group) \/ value = StrV(Strip(group))

\* C25: each of company, year and report type is decided by the first match
\* of the lowest-indexed pattern of its own list that matches anywhere in the
\* text, also when a later pattern matches earlier in the text, and is absent
\* iff no pattern of the list matches.
C25_FirstPatternWins ==
    tpc = "info" =>
        /\ DecidedBy(company_info.company_name, company_patterns)
        /\ DecidedBy(company_info.year, year_patterns)
        /\ DecidedBy(company_info.report_type, report_patterns)

\* the year comes from the second pattern, the report type from the first,
\* though the third and the second match at an earlier place
C25_Witness ==
    /\ tpc = "info" /\ text = LaterPatternsFirst
    /\ company_info.year = StrV(<<"1", "9", "9", "9">>)
    /\ MatchFrom("year 3", text, 15).found
    /\ company_info.report_type = StrV(CharsIncomeStatement)
    /\ MatchFrom("report 2", text, 1).found

---------------------------------------------------------------------------
(* The entries of extract_financial_keywords *)

\* the complete texts a pattern matches from position pos on, left to right
RECURSIVE MatchedTexts(_, _, _)
MatchedTexts(p, s, pos) ==
    LET starts == {i \in pos..Len(s) : KeywordAt(p, s, i).found}
        match == KeywordAt(p, s, SetMin(starts))
    IN  IF starts = {} THEN <<>>
        ELSE <<SubSeq(s, match.start, match.end - 1)>>
             \o MatchedTexts(p, s, match.end)

RECURSIVE AllMatchedTexts(_, _)
AllMatchedTexts(patterns, s) ==
    IF patterns = <<>> THEN <<>>
    ELSE MatchedTexts(Head(patterns), s, 1) \o AllMatchedTexts(Tail(patterns), s)

\* C26: every entry of a category list is the complete text its pattern
\* matched, the keyword phrase with its amount, one entry per match and none
\* removed as a duplicate.
C26_EntriesVerbatim ==
    tpc = "keywords" =>
        /\ keywords.revenue_terms = AllMatchedTexts(revenue_patterns, text)
        /\ keywords.expense_terms = AllMatchedTexts(expense_patterns, text)
        /\ keywords.profit_terms = AllMatchedTexts(profit_patterns, text)
        /\ keywords.balance_sheet_terms = AllMatchedTexts(balance_patterns, text)

---------------------------------------------------------------------------
(* The rows of the store *)

\* C27: whatever the interleaving of the ingest requests, the store never
\* holds two rows with the same (company_name, year): the second ingest of a
\* company and year is answered 409 and adds nothing.
C27_StoreKeysUnique ==
    \A i, j \in DOMAIN store :
        (/\ store[i]["company_name"] = store[j]["company_name"]
         /\ store[i]["year"] = store[j]["year"]) => i = j

---------------------------------------------------------------------------
(* What ingest_document stores *)

\* the statuses of the requests that failed
FailureStatuses == {400, 422, 409, 500}

\* request r adds the record validate_financial_data returned for it
StoresValidated(r) ==
    /\ rpc[r] = "commit"
    /\ validate_financial_data(rarg[r], General, current_year).valid
    /\ rrec[r] = validate_financial_data(rarg[r], General, current_year).record
    /\ Len(store') = Len(store) + 1
    /\ SubSeq(store', 1, Len(store)) = store
    /\ \A f \in StoredFields : store'[Len(store')][f] = rrec[r][f]

\* C28: a record is added to the store only after validate_financial_data
\* returned a valid record for that request, and a request that ends in a
\* failure (400, 500, 422, 409) leaves the store unchanged.
C28_OnlyValidatedStored ==
    [][/\ (store' # store) => (\E r \in Requests : StoresValidated(r))
       /\ \A r \in Requests :
              (rstatus[r] = 0 /\ rstatus'[r] \in FailureStatuses)
                  => (store' = store)]_vars

\* one request stored its record, the other failed validation
C28_Witness ==
    /\ Len(store) = 1
    /\ \E r, q \in Requests :
           /\ rstatus[r] = 200 /\ rstatus[q] = 422
           /\ \A f \in StoredFields : store[1][f] = rrec[r][f]

---------------------------------------------------------------------------
(* The chunks of a text that is split *)

\* C29: when the text is longer than max_chunk_size, every chunk is a
\* non-empty string after trimming, also when the text starts with or holds
\* empty paragraphs.
C29_NoEmptyChunk ==
    (tpc = "chunked" /\ Len(text) > max_chunk_size) =>
        \A i \in DOMAIN chunks : Strip(chunks[i]) # <<>>

---------------------------------------------------------------------------
(* clean_financial_data applied twice *)

=======================================================================
